---- MODULE Spec2Model ----
(***************************************************************************)
(* Verification model of the XMTP agent examples: the message-stream       *)
(* loops, the stream retry helper, the outbound reply queues of the        *)
(* queue / dual-client examples and the toss manager of the cointoss       *)
(* example.                                                                *)
(*                                                                         *)
(* The variable `example` says which program of the repository is running. *)
(* Every action is guarded by it, and every specification restricts the    *)
(* programs it starts.                                                     *)
(***************************************************************************)
EXTENDS Integers, Sequences, FiniteSets, TLC

VARIABLES
    example,      \* the program that is running
    pc,           \* "loading" | "configured" | "running" | "returned" |
                  \* "rejected" | "exited"
    exitCode,     \* -1 while the process lives, else the code of process.exit
    sub,          \* the inbound subscription: "none" | "open" | "failed"
    received,     \* number of inbound events the stream has delivered
    cur,          \* the inbound event handled last
    invoked,      \* the message handler was invoked for cur
    replies,      \* the replies sent into the conversation while handling cur
    threw,        \* handling cur raised an exception
    logged,       \* an error was logged while handling cur
    asyncPending, \* messages whose handleMessageAsync has not finished
    retries,      \* the retries counter of the retry helper
    messageQueue, \* the outbound queue of the queue examples
    inflight,     \* the messages the unfinished processMessageQueue runs have taken
    sentLog,      \* the queued messages that were sent, in the order of sending
    discarded,    \* the queued messages that were dropped
    history,      \* the messages of the conversations, as conversation.messages() lists them
    now,          \* Date.now(), in ticks of half a minute
    nextReply,    \* number of the next reply to be queued
    notFound,     \* the run of processMessageQueue that has just finished found no conversation
    timer,        \* milliseconds until the timer of retry() fires, -1 without a timer
    waited,       \* milliseconds since the last stream failure
    resubs,       \* number of re-subscriptions after a failure
    fails,        \* number of stream failures reported to onFail
    lastWait,     \* the time between the last re-subscription and the failure before it
    store,        \* the toss files: toss id -> the content of the file
    closing,      \* the toss and winning option of the executeCoinToss under way
    paid,         \* <<player, toss id>> of the join payments that succeeded
    payout,       \* the pay-out of the toss command handled last
    cmd,          \* the command and arguments handleCommand took from the mention handled last
    created,      \* the toss createGameFromPrompt returned to the command handled last
    processEnv,   \* process.env: the value of each variable, or undefined
    rootEnv,      \* the content of the .env file two directories up, or NoFile
    installations,        \* the installations of the inbox on the network, in array order
    currentInstallations, \* inboxState[0].installations as the revoke script read it
    envFile,      \* the content of the .env file of the working directory, or NoFile
    usersInGroup, \* the usersInGroup set of the secret-word agent
    groupMembers, \* the users that are members of a group the secret-word agent created
    syncIntervals,   \* the receiver's setInterval timers of the periodic sync that are active
    missedIntervals  \* the receiver's setInterval timers of processMissedMessages that are active

vars == <<example, pc, exitCode, sub, received, cur, invoked, replies, threw, logged,
          asyncPending, retries, messageQueue, inflight, sentLog, discarded, history,
          now, nextReply, notFound, timer, waited, resubs, fails, lastWait,
          store, closing, paid, payout, cmd, created, processEnv, rootEnv,
          installations, currentInstallations, envFile, usersInGroup, groupMembers,
          syncIntervals, missedIntervals>>

intervalVars == <<syncIntervals, missedIntervals>>

envVars == <<processEnv, rootEnv>>

scriptVars == <<installations, currentInstallations, envFile>>

secretVars == <<usersInGroup, groupMembers>>

retryVars == <<timer, waited, resubs, fails, lastWait>>

queueVars ==
    <<messageQueue, inflight, sentLog, discarded, history, now, nextReply, notFound>>

tossVars == <<store, closing, paid, payout, cmd, created>>

----------------------------------------------------------------------------
(* Bounds *)

\* inbound events of a plain stream loop
MaxMsgs == 3

\* inbound events of a queue example
MaxInbound == 2

\* replies that are queued in one run of a queue example
MaxReplies == 2

\* ticks of the clock
MaxTime == 1

\* the step of the millisecond clock of the retry helper
TickMs == 1000

\* toss ids the storage can hold
MaxTosses == 1

\* users that send toss commands
MaxPlayers == 2

\* toss commands the message listener hands to handleCommand
MaxCommands == 4

\* re-subscriptions of a receiver that restarts its stream
MaxRestarts == 6

----------------------------------------------------------------------------
(* Program constants *)

MAX_RETRIES == 5

\* RETRY_INTERVAL, in milliseconds
RETRY_INTERVAL == 5000

\* one minute ("the last minute" of processMissedMessages: Date.now() - 60000),
\* in ticks of the clock
MinuteTicks == 2

\* the programs with an outbound reply queue
QueueExamples == {"fifo", "dual", "queueDual", "part015"}

\* the programs with the stream retry helper
RetryExamples == {"retryHelper", "retryReadme"}

\* the receivers that start again after their stream threw: the dual-client
\* examples and part_015
RestartingReceivers == {"dual", "queueDual", "part015"}

\* the programs that re-subscribe without the retry helper; "gmLoop" is the
\* while (true) loop of the last program of xmtp-queue-dual-client/index.ts
RestartExamples == RestartingReceivers \cup {"gmLoop"}

\* the delay of the setTimeout that restarts the receiver, in milliseconds
RECEIVER_RESTART_DELAY == 5000

\* SYNC_INTERVAL of part_015, in milliseconds
SYNC_INTERVAL_part015 == 500

\* the time between a failure of the stream and the next subscription
restartDelay ==
    IF example = "part015" THEN SYNC_INTERVAL_part015
    ELSE IF example = "gmLoop" THEN 0
    ELSE RECEIVER_RESTART_DELAY

\* the programs with a plain message-stream loop
StreamExamples ==
    {"helper", "skills", "tossListener", "langchain", "gm", "gmExit", "gmDm",
     "gpt", "gaia", "nft"}

----------------------------------------------------------------------------
(* Strings are sequences of one-character strings, so that toLowerCase,    *)
(* trim, split and the regular expressions act on their characters.        *)

UpperChars == <<"A","B","C","D","E","F","G","H","I","J","K","L","M",
                "N","O","P","Q","R","S","T","U","V","W","X","Y","Z">>

LowerChars == <<"a","b","c","d","e","f","g","h","i","j","k","l","m",
                "n","o","p","q","r","s","t","u","v","w","x","y","z">>

LowerChar(ch) ==
    IF \E i \in 1..26 : UpperChars[i] = ch
    THEN LowerChars[CHOOSE i \in 1..26 : UpperChars[i] = ch]
    ELSE ch

toLowerCase(s) == [i \in 1..Len(s) |-> LowerChar(s[i])]

IsSpace(ch) == ch \in {" ", "\n", "\t"}

\* String.prototype.trim
RECURSIVE trimStart(_)
trimStart(s) ==
    IF s # <<>> /\ IsSpace(Head(s)) THEN trimStart(Tail(s)) ELSE s

RECURSIVE trimEnd(_)
trimEnd(s) ==
    IF s # <<>> /\ IsSpace(s[Len(s)]) THEN trimEnd(SubSeq(s, 1, Len(s) - 1)) ELSE s

trim(s) == trimEnd(trimStart(s))

\* String.prototype.startsWith
startsWith(s, prefix) ==
    Len(s) >= Len(prefix) /\ SubSeq(s, 1, Len(prefix)) = prefix

\* String.prototype.split(" "): the pieces between single blanks, empty
\* pieces included
RECURSIVE splitFrom(_, _, _)
splitFrom(s, i, acc) ==
    IF i > Len(s) THEN <<acc>>
    ELSE IF s[i] = " " THEN <<acc>> \o splitFrom(s, i + 1, <<>>)
    ELSE splitFrom(s, i + 1, Append(acc, s[i]))

split(s) == splitFrom(s, 1, <<>>)

\* the i-th element of an array (1-based here), "undefined" past its end
Undefined == <<"undefined">>

At(arr, i) == IF i <= Len(arr) THEN arr[i] ELSE Undefined

\* JavaScript falsiness of a string | undefined | null
Falsy(s) == s = Undefined \/ s = <<>>

Range(q) == { q[i] : i \in 1..Len(q) }

----------------------------------------------------------------------------
(* Inbound events *)

\* client.inboxId of the agent
ClientInboxId == <<"a", "b">>

\* sender inbox ids: the agent, the agent in another letter case, a peer
Senders == { <<"a", "b">>, <<"A", "B">>, <<"c", "d">> }

\* contentType.typeId; "none" stands for a message without content type
TypeIds == {"text", "reaction", "none"}

\* conversation ids: a DM and a group of the local database, and an id
\* the local database does not hold
Convs == {"dm1", "grp1", "gone"}

KnownConvs == {"dm1", "grp1"}

GroupConvs == {"grp1"}

NoContent == <<>>

NullMsg == [sender |-> <<>>, typeId |-> "null", conv |-> "null", content |-> NoContent]

PlainMessages ==
    [sender : Senders, typeId : TypeIds, conv : Convs, content : {<<"h", "i">>}]

\* the comparison inverted
IsSelfInverted(m) == m # NullMsg /\ toLowerCase(m.sender) # toLowerCase(ClientInboxId)

\* message?.senderInboxId.toLowerCase() === client.inboxId.toLowerCase()
IsSelf(m) == m # NullMsg /\ toLowerCase(m.sender) = toLowerCase(ClientInboxId)

\* message?.contentType?.typeId !== "text"
IsNotText(m) == m = NullMsg \/ m.typeId # "text"

Outcome(inv, rep, thr, log, next) ==
    [invoked |-> inv, replies |-> rep, threw |-> thr, logged |-> log, pc |-> next]

Skipped == Outcome(FALSE, <<>>, FALSE, FALSE, "running")

----------------------------------------------------------------------------
(* examples/xmtp-helper/xmtp-helper.ts *)

HandlerResults == {"reply", "none", "throw"}

\* XmtpHelper.sendMessage: the conversation is looked up by id, a missing
\* conversation or a failed send throws
sendMessage(conv, sendOk) ==
    IF conv \notin KnownConvs THEN "throw"
    ELSE IF sendOk THEN "sent" ELSE "throw"

\* XmtpHelper.processMessage: null for self-sent and non-text messages and
\* when the sender address cannot be resolved (the error is caught and logged)
processMessage(m, addrOk) ==
    IF IsSelf(m) THEN "null"
    ELSE IF m.typeId # "text" THEN "null"
    ELSE IF ~addrOk THEN "nullLogged"
    ELSE "processed"

\* one iteration of the for-await loop of XmtpHelper.startMessageStream
startMessageStream(m, addrOk, h, sendOk) ==
    IF m = NullMsg THEN Skipped
    ELSE LET p == processMessage(m, addrOk) IN
         IF p = "null" THEN Skipped
         ELSE IF p = "nullLogged" THEN Outcome(FALSE, <<>>, TRUE, TRUE, "running")
         ELSE IF h = "throw" THEN Outcome(TRUE, <<>>, TRUE, TRUE, "running")
         ELSE IF h = "none" THEN Outcome(TRUE, <<>>, FALSE, FALSE, "running")
         ELSE IF sendMessage(m.conv, sendOk) = "throw"
              THEN Outcome(TRUE, <<>>, TRUE, TRUE, "running")
              ELSE Outcome(TRUE, <<"response">>, FALSE, FALSE, "running")

Deliver(m, o) ==
    /\ received' = received + 1
    /\ cur' = m
    /\ invoked' = o.invoked
    /\ replies' = o.replies
    /\ threw' = o.threw
    /\ logged' = o.logged
    /\ pc' = o.pc
    /\ exitCode' = IF o.pc = "exited" THEN 1 ELSE exitCode

Subscribed == pc = "running" /\ sub = "open"

Live == Subscribed /\ received < MaxMsgs

HelperMessage ==
    /\ example = "helper"
    /\ Live
    /\ \E m \in PlainMessages \cup {NullMsg}, addrOk \in BOOLEAN,
          h \in HandlerResults, sendOk \in BOOLEAN :
          Deliver(m, startMessageStream(m, addrOk, h, sendOk))
    /\ UNCHANGED <<example, intervalVars, envVars, scriptVars, secretVars, tossVars, sub, asyncPending, retries, queueVars, retryVars>>

----------------------------------------------------------------------------
(* examples/xmtp-skills/xmtp-skills.ts *)

\* xmtpAgent.onMessage: TRUE when the message is handed to handleMessageAsync
onMessage(m) ==
    IF m = NullMsg THEN FALSE
    ELSE IF IsSelf(m) \/ m.typeId # "text" THEN FALSE
    ELSE TRUE

\* xmtpAgent.processMessage resolves the sender address only; the filters
\* are in onMessage
skillsProcessMessage(m, addrOk) ==
    IF ~addrOk THEN "nullLogged" ELSE "processed"

\* xmtpAgent.handleMessageAsync; reset says whether this.retries is set back
\* to MAX_RETRIES
handleMessageAsync(m, addrOk, h, sendOk) ==
    LET p == skillsProcessMessage(m, addrOk) IN
    IF p = "nullLogged"
    THEN [o |-> Outcome(FALSE, <<>>, TRUE, TRUE, "running"), reset |-> TRUE]
    ELSE IF h = "throw"
    THEN [o |-> Outcome(TRUE, <<>>, TRUE, TRUE, "running"), reset |-> FALSE]
    ELSE IF h = "none"
    THEN [o |-> Outcome(TRUE, <<>>, FALSE, FALSE, "running"), reset |-> TRUE]
    ELSE IF sendMessage(m.conv, sendOk) = "throw"
    THEN [o |-> Outcome(TRUE, <<>>, TRUE, TRUE, "running"), reset |-> FALSE]
    ELSE [o |-> Outcome(TRUE, <<"response">>, FALSE, FALSE, "running"), reset |-> TRUE]

SkillsOnMessage ==
    /\ example = "skills"
    /\ Live
    /\ \E m \in PlainMessages \cup {NullMsg} :
          /\ Deliver(m, Skipped)
          /\ asyncPending' = IF onMessage(m) THEN asyncPending \cup {m}
                             ELSE asyncPending
    /\ UNCHANGED <<example, intervalVars, envVars, scriptVars, secretVars, tossVars, sub, retries, queueVars, retryVars>>

SkillsHandleMessageAsync ==
    /\ example = "skills"
    /\ pc = "running"
    /\ \E m \in asyncPending, addrOk \in BOOLEAN, h \in HandlerResults,
          sendOk \in BOOLEAN :
          LET r == handleMessageAsync(m, addrOk, h, sendOk) IN
          /\ asyncPending' = asyncPending \ {m}
          /\ cur' = m
          /\ invoked' = r.o.invoked
          /\ replies' = r.o.replies
          /\ threw' = r.o.threw
          /\ logged' = r.o.logged
          /\ retries' = IF r.reset THEN MAX_RETRIES ELSE retries
    /\ UNCHANGED <<example, intervalVars, envVars, scriptVars, secretVars, tossVars, pc, exitCode, sub, received, queueVars, retryVars>>

----------------------------------------------------------------------------
(* examples/xmtp-group-toss/src/xmtp.ts, examples/xmtp-group-toss/src/index.ts *)

AtToss == <<"@", "t", "o", "s", "s">>

Null == <<"null">>

\* positions where /@toss\s/i matches
TossMatches(c) ==
    { i \in 1..Len(c) :
        /\ i + 5 <= Len(c)
        /\ toLowerCase(SubSeq(c, i, i + 4)) = AtToss
        /\ IsSpace(c[i + 5]) }

\* the rest of the line: (.*) stops at a line break
RECURSIVE restOfLine(_)
restOfLine(s) ==
    IF s = <<>> \/ Head(s) = "\n" THEN <<>>
    ELSE <<Head(s)>> \o restOfLine(Tail(s))

\* a content without a mention is taken for a command as it is
extractCommandWhole(content) ==
    IF TossMatches(content) = {} THEN trim(content)
    ELSE LET i == CHOOSE k \in TossMatches(content) :
                       \A l \in TossMatches(content) : k <= l
             after == trimStart(SubSeq(content, i + 5, Len(content)))
         IN  trim(restOfLine(after))

\* extractCommand: content.match(/@toss\s+(.*)/i), then match[1].trim()
extractCommand(content) ==
    IF TossMatches(content) = {} THEN Null
    ELSE LET i == CHOOSE k \in TossMatches(content) :
                       \A l \in TossMatches(content) : k <= l
             after == trimStart(SubSeq(content, i + 5, Len(content)))
         IN  trim(restOfLine(after))

\* handleMessage of index.ts: command.replace(/^@toss\s+/i, "").trim()
commandContent(command) ==
    trim(IF /\ Len(command) > 5
            /\ toLowerCase(SubSeq(command, 1, 5)) = AtToss
            /\ IsSpace(command[6])
         THEN trimStart(SubSeq(command, 6, Len(command)))
         ELSE command)

W_join == <<"j", "o", "i", "n">>
W_close == <<"c", "l", "o", "s", "e">>
W_status == <<"s", "t", "a", "t", "u", "s">>
W_list == <<"l", "i", "s", "t">>
W_balance == <<"b", "a", "l", "a", "n", "c", "e">>
W_help == <<"h", "e", "l", "p">>

\* "help" is not among the explicit commands
ExplicitCommandsNoHelp == {W_join, W_close, W_status, W_list, W_balance}

\* the first words handleCommand takes for explicit commands
ExplicitCommands == {W_join, W_close, W_status, W_list, W_balance, W_help}

\* no explicit command: the content is a natural-language prompt
NoCommand == [command |-> Null, args |-> <<>>]

\* the command word is left among the arguments
handleCommandKeepsWord(content) ==
    LET commandParts == split(content)
        firstWord == toLowerCase(commandParts[1])
    IN  IF firstWord \in ExplicitCommands
        THEN [command |-> commandParts[1], args |-> commandParts]
        ELSE NoCommand

\* handleCommand: the command and the arguments it hands to
\* handleExplicitCommand
handleCommand(content) ==
    LET commandParts == split(content)
        firstWord == toLowerCase(commandParts[1])
    IN  IF firstWord \in ExplicitCommands
        THEN [command |-> commandParts[1], args |-> Tail(commandParts)]
        ELSE NoCommand

\* the command handleMessage hands on for the content of a message that
\* mentions the agent
handleMessage(content) == handleCommand(commandContent(extractCommand(content)))

S_hi == <<"h", "i">>
S_toss_help == <<"@", "t", "o", "s", "s", " ", "h", "e", "l", "p">>
S_toss_join == <<"@", "t", "o", "s", "s", " ", "j", "o", "i", "n", " ", "5", " ", "y", "e", "s">>
S_TOSS_close == <<"s", "a", "y", " ", "@", "T", "O", "S", "S", " ", " ", "c", "l", "o", "s", "e", " ", "1", " ", "y", "e", "s", " ">>
S_toss_bare == <<"@", "t", "o", "s", "s", " ">>
S_tossed == <<"@", "t", "o", "s", "s", "e", "d", " ", "c", "o", "i", "n">>

TossContents == {S_hi, S_toss_help, S_toss_join, S_TOSS_close, S_toss_bare, S_tossed}

TossMessages ==
    [sender : Senders, typeId : TypeIds, conv : Convs, content : TossContents]

\* one iteration of the loop of startMessageListener; handleMessage of
\* index.ts catches and logs whatever the command handling or the send throws
startMessageListener(m, hOk) ==
    IF IsSelf(m) \/ IsNotText(m) THEN Skipped
    ELSE LET command == extractCommand(m.content) IN
         IF command = Null \/ Falsy(command) THEN Skipped
         ELSE IF m.conv \notin KnownConvs THEN Skipped
         ELSE IF hOk THEN Outcome(TRUE, <<"response">>, FALSE, FALSE, "running")
              ELSE Outcome(TRUE, <<>>, TRUE, TRUE, "running")

TossListenerMessage ==
    /\ example = "tossListener"
    /\ Live
    /\ \E m \in TossMessages \cup {NullMsg}, hOk \in BOOLEAN :
          LET o == startMessageListener(m, hOk)
          IN  /\ Deliver(m, o)
              /\ cmd' = IF o.invoked THEN handleMessage(m.content) ELSE NoCommand
    /\ UNCHANGED <<example, intervalVars, envVars, scriptVars, secretVars, store, closing, paid, payout, created, sub,
                   asyncPending, retries, queueVars, retryVars>>

----------------------------------------------------------------------------
(* unnamed/part_021: the coinbase-langchain agent *)

\* the catch block of handleMessage: the apology is sent into the
\* conversation; a failing send there escapes handleMessage, the loop and
\* main, whose catch exits with code 1
handleMessageCatch(m, inv, apologyOk) ==
    IF m.conv \notin KnownConvs THEN Outcome(inv, <<>>, TRUE, TRUE, "running")
    ELSE IF apologyOk THEN Outcome(inv, <<"apology">>, TRUE, TRUE, "running")
    ELSE Outcome(inv, <<>>, TRUE, TRUE, "exited")

\* handleMessage: only self-sent messages are ignored; the agent's own
\* processMessage answers with an apology text when the agent run fails
langchainHandleMessage(m, agentOk, aiOk, sendOk, apologyOk) ==
    IF IsSelf(m) THEN Skipped
    ELSE IF ~agentOk THEN handleMessageCatch(m, TRUE, apologyOk)
    ELSE IF m.conv \notin KnownConvs THEN handleMessageCatch(m, TRUE, apologyOk)
    ELSE IF ~sendOk THEN handleMessageCatch(m, TRUE, apologyOk)
    ELSE Outcome(TRUE, <<IF aiOk THEN "response" ELSE "apology">>, ~aiOk, ~aiOk, "running")

\* startMessageListener: if (message) await handleMessage(message, client)
LangchainMessage ==
    /\ example = "langchain"
    /\ Live
    /\ \E m \in PlainMessages \cup {NullMsg}, agentOk \in BOOLEAN, aiOk \in BOOLEAN,
          sendOk \in BOOLEAN, apologyOk \in BOOLEAN :
          Deliver(m, IF m = NullMsg THEN Skipped
                     ELSE langchainHandleMessage(m, agentOk, aiOk, sendOk, apologyOk))
    /\ UNCHANGED <<example, intervalVars, envVars, scriptVars, secretVars, tossVars, sub, asyncPending, retries, queueVars, retryVars>>

----------------------------------------------------------------------------
(* examples/gm/index.ts, unnamed/part_008 *)

\* the loop body of examples/gm/index.ts: nothing catches inside the loop,
\* main().catch(console.error) logs what escapes
gmMain(m, dmFound, ioOk) ==
    IF IsSelf(m) \/ IsNotText(m) THEN Skipped
    ELSE IF ~dmFound THEN Skipped
    ELSE IF ioOk THEN Outcome(TRUE, <<"gm">>, FALSE, FALSE, "running")
    ELSE Outcome(TRUE, <<>>, TRUE, TRUE, "rejected")

GmMessage ==
    /\ example = "gm"
    /\ Live
    /\ \E m \in PlainMessages \cup {NullMsg}, dmFound \in BOOLEAN, ioOk \in BOOLEAN :
          Deliver(m, gmMain(m, dmFound, ioOk))
    /\ UNCHANGED <<example, intervalVars, envVars, scriptVars, secretVars, tossVars, sub, asyncPending, retries, queueVars, retryVars>>

\* the loop body of the first program of part_008; its main().catch logs
\* and calls process.exit(1)
gmExitMain(m, ioOk) ==
    IF IsSelf(m) \/ IsNotText(m) THEN Skipped
    ELSE IF m.conv \notin KnownConvs THEN Skipped
    ELSE IF ioOk THEN Outcome(TRUE, <<"gm">>, FALSE, FALSE, "running")
    ELSE Outcome(TRUE, <<>>, TRUE, TRUE, "exited")

GmExitMessage ==
    /\ example = "gmExit"
    /\ Live
    /\ \E m \in PlainMessages \cup {NullMsg}, ioOk \in BOOLEAN :
          Deliver(m, gmExitMain(m, ioOk))
    /\ UNCHANGED <<example, intervalVars, envVars, scriptVars, secretVars, tossVars, sub, asyncPending, retries, queueVars, retryVars>>

\* the loop body of the second program of part_008: every skip is a return
\* from main; message.senderInboxId of a missing message is a TypeError
gmDmMain(m, ioOk) ==
    IF m = NullMsg THEN Outcome(FALSE, <<>>, TRUE, TRUE, "rejected")
    ELSE IF IsSelf(m) THEN Outcome(FALSE, <<>>, FALSE, FALSE, "returned")
    ELSE IF m.typeId # "text" THEN Outcome(FALSE, <<>>, FALSE, FALSE, "returned")
    ELSE IF m.conv \notin KnownConvs THEN Outcome(FALSE, <<>>, FALSE, FALSE, "returned")
    ELSE IF m.conv \in GroupConvs THEN Outcome(FALSE, <<>>, FALSE, FALSE, "returned")
    ELSE IF ioOk THEN Outcome(TRUE, <<"gm">>, FALSE, FALSE, "running")
    ELSE Outcome(TRUE, <<>>, TRUE, TRUE, "rejected")

GmDmMessage ==
    /\ example = "gmDm"
    /\ Live
    /\ \E m \in PlainMessages \cup {NullMsg}, ioOk \in BOOLEAN :
          Deliver(m, gmDmMain(m, ioOk))
    /\ UNCHANGED <<example, intervalVars, envVars, scriptVars, secretVars, tossVars, sub, asyncPending, retries, queueVars, retryVars>>

----------------------------------------------------------------------------
(* examples/xmtp-gpt/index.ts *)

\* the loop body of messageStream: an unknown conversation is a return; the
\* apology of the catch block is sent outside any try
messageStream(m, aiOk, sendOk, apologyOk) ==
    IF m = NullMsg THEN Outcome(FALSE, <<>>, TRUE, TRUE, "rejected")
    ELSE IF IsSelf(m) \/ m.typeId # "text" THEN Skipped
    ELSE IF m.conv \notin KnownConvs THEN Outcome(FALSE, <<>>, FALSE, FALSE, "returned")
    ELSE IF aiOk /\ sendOk THEN Outcome(TRUE, <<"response">>, FALSE, FALSE, "running")
    ELSE IF apologyOk THEN Outcome(TRUE, <<"apology">>, TRUE, TRUE, "running")
    ELSE Outcome(TRUE, <<>>, TRUE, TRUE, "rejected")

GptMessage ==
    /\ example = "gpt"
    /\ Live
    /\ \E m \in PlainMessages \cup {NullMsg}, aiOk \in BOOLEAN, sendOk \in BOOLEAN,
          apologyOk \in BOOLEAN :
          Deliver(m, messageStream(m, aiOk, sendOk, apologyOk))
    /\ UNCHANGED <<example, intervalVars, envVars, scriptVars, secretVars, tossVars, sub, asyncPending, retries, queueVars, retryVars>>

----------------------------------------------------------------------------
(* examples/xmtp-gaia/index.ts *)

\* the loop body of main: a message that is skipped is a continue; the
\* apology of the catch block is sent outside any try, and
\* main().catch(console.error) logs what escapes
gaiaMain(m, aiOk, sendOk, apologyOk) ==
    IF IsSelf(m) \/ IsNotText(m) THEN Skipped
    ELSE IF m.conv \notin KnownConvs THEN Skipped
    ELSE IF aiOk /\ sendOk THEN Outcome(TRUE, <<"response">>, FALSE, FALSE, "running")
    ELSE IF apologyOk THEN Outcome(TRUE, <<"apology">>, TRUE, TRUE, "running")
    ELSE Outcome(TRUE, <<>>, TRUE, TRUE, "rejected")

GaiaMessage ==
    /\ example = "gaia"
    /\ Live
    /\ \E m \in PlainMessages \cup {NullMsg}, aiOk \in BOOLEAN, sendOk \in BOOLEAN,
          apologyOk \in BOOLEAN :
          Deliver(m, gaiaMain(m, aiOk, sendOk, apologyOk))
    /\ UNCHANGED <<example, intervalVars, envVars, scriptVars, secretVars, tossVars, sub, asyncPending, retries, queueVars, retryVars>>

----------------------------------------------------------------------------
(* examples/xmtp-nft-gated-group/index.ts *)

S_create == <<"/", "c", "r", "e", "a", "t", "e">>
S_add == <<"/", "a", "d", "d">>
S_add_g == <<"/", "a", "d", "d", " ", "g", "r", "p", "1">>
S_add_x == <<"/", "a", "d", "d", " ", "g", "o", "n", "e", " ", "0", "x", "w">>
S_add_g_w == <<"/", "a", "d", "d", " ", "g", "r", "p", "1", " ", "0", "x", "w">>

NftContents == {S_hi, S_create, S_add, S_add_g, S_add_x, S_add_g_w}

NftMessages ==
    [sender : Senders, typeId : TypeIds, conv : Convs, content : NftContents]

\* the conversation ids as they are typed into a command
ConvNames == { <<"d", "m", "1">>, <<"g", "r", "p", "1">> }

\* the loop body of main: every finished command but a successful /add
\* returns from main
nftMain(m, dmFound, hasNft, ioOk) ==
    IF IsSelf(m) \/ IsNotText(m) THEN Skipped
    ELSE IF ~dmFound THEN Skipped
    ELSE IF ~ioOk THEN Outcome(TRUE, <<>>, TRUE, TRUE, "rejected")
    ELSE IF m.content = S_create
         THEN Outcome(TRUE, <<"groupCreated">>, FALSE, FALSE, "returned")
    ELSE IF startsWith(m.content, S_add)
         THEN LET groupId == At(split(m.content), 2)
                  walletAddress == At(split(m.content), 3)
              IN  IF Falsy(groupId)
                  THEN Outcome(TRUE, <<"provideGroupId">>, FALSE, FALSE, "returned")
                  ELSE IF groupId \notin ConvNames
                  THEN Outcome(TRUE, <<"provideValidGroupId">>, FALSE, FALSE, "returned")
                  ELSE IF Falsy(walletAddress)
                  THEN Outcome(TRUE, <<"provideWallet">>, FALSE, FALSE, "returned")
                  ELSE IF ~hasNft
                  THEN Outcome(TRUE, <<>>, FALSE, FALSE, "returned")
                  ELSE Outcome(TRUE, <<"userAdded">>, FALSE, FALSE, "running")
    ELSE Outcome(TRUE, <<"help">>, FALSE, FALSE, "returned")

NftMessage ==
    /\ example = "nft"
    /\ Live
    /\ \E m \in NftMessages \cup {NullMsg}, dmFound \in BOOLEAN, hasNft \in BOOLEAN,
          ioOk \in BOOLEAN :
          Deliver(m, nftMain(m, dmFound, hasNft, ioOk))
    /\ UNCHANGED <<example, intervalVars, envVars, scriptVars, secretVars, tossVars, sub, asyncPending, retries, queueVars, retryVars>>

----------------------------------------------------------------------------
(* Start-up: the module top level of an example up to the opening of the   *)
(* message stream.                                                         *)
(*   "helper" examples/xmtp-helper/index.ts (validateEnvironment)          *)
(*   "gm"     examples/gm/index.ts (checks at the module top level)        *)

WALLET_KEY == <<"W", "A", "L", "L", "E", "T", "_", "K", "E", "Y">>

ENCRYPTION_KEY == <<"E", "N", "C", "R", "Y", "P", "T", "I", "O", "N", "_", "K", "E", "Y">>

XMTP_ENV == <<"X", "M", "T", "P", "_", "E", "N", "V">>

EnvNames == {WALLET_KEY, ENCRYPTION_KEY, XMTP_ENV}

\* the value of a variable that is set and not empty
EnvValue == <<"k">>

EnvValues == {Undefined, <<>>, EnvValue}

\* fs.existsSync(rootEnvPath) is false
NoFile == <<"ENOENT">>

\* lines of a .env file: assignments, an assignment with blanks, an empty
\* assignment, a comment
EnvLines ==
    { WALLET_KEY \o <<"=">> \o EnvValue,
      ENCRYPTION_KEY \o <<"=">> \o EnvValue,
      <<" ">> \o XMTP_ENV \o <<" ", "=", " ">> \o EnvValue,
      WALLET_KEY \o <<"=">>,
      <<"#">> \o ENCRYPTION_KEY \o <<"=">> \o EnvValue }

\* String.prototype.split(separator)
RECURSIVE splitByFrom(_, _, _, _)
splitByFrom(s, separator, i, acc) ==
    IF i > Len(s) THEN <<acc>>
    ELSE IF s[i] = separator THEN <<acc>> \o splitByFrom(s, separator, i + 1, <<>>)
    ELSE splitByFrom(s, separator, i + 1, Append(acc, s[i]))

splitBy(s, separator) == splitByFrom(s, separator, 1, <<>>)

\* Array.prototype.join(separator)
RECURSIVE join(_, _)
join(parts, separator) ==
    IF parts = <<>> THEN <<>>
    ELSE IF Len(parts) = 1 THEN Head(parts)
    ELSE Head(parts) \o <<separator>> \o join(Tail(parts), separator)

MaxLines == 2

\* the .env files: up to MaxLines lines joined by newlines
EnvFiles ==
    { join(ls, "\n") : ls \in UNION { [1..n -> EnvLines] : n \in 0..MaxLines } }

\* the lines validateEnvironment keeps: not blank, not a comment
KeptLine(line) == trim(line) # <<>> /\ ~startsWith(line, <<"#">>)

\* the reduce of validateEnvironment over the lines: the value the parsed
\* file gives to varName, a later line overriding an earlier one
RECURSIVE envVarsOf(_, _)
envVarsOf(lines, varName) ==
    IF lines = <<>> THEN Undefined
    ELSE LET line == lines[Len(lines)]
             key == Head(splitBy(line, "="))
             valueParts == Tail(splitBy(line, "="))
             rest == envVarsOf(SubSeq(lines, 1, Len(lines) - 1), varName)
         IN  IF KeptLine(line) /\ key # <<>> /\ valueParts # <<>> /\ trim(key) = varName
             THEN trim(join(valueParts, "="))
             ELSE rest

\* process.env after the missing variables were looked up in the root .env
loadRootEnv(requiredVars, env, file) ==
    [v \in EnvNames |->
        IF v \in requiredVars /\ Falsy(env[v]) /\ file # NoFile
              /\ ~Falsy(envVarsOf(splitBy(file, "\n"), v))
        THEN envVarsOf(splitBy(file, "\n"), v)
        ELSE env[v]]

\* the process goes on whatever is missing
validateEnvironmentNoExit(requiredVars, env, file) ==
    [env |-> loadRootEnv(requiredVars, env, file), exit |-> FALSE]

\* validateEnvironment: process.exit(1) when a variable is still missing
\* after the root .env was read
validateEnvironment(requiredVars, env, file) ==
    [env |-> loadRootEnv(requiredVars, env, file),
     exit |-> \E v \in requiredVars : Falsy(loadRootEnv(requiredVars, env, file)[v])]

StartExamples == {"helper", "gm"}

\* the variables the start-up of an example checks
Required ==
    IF example = "helper" THEN {WALLET_KEY, ENCRYPTION_KEY, XMTP_ENV}
    ELSE {WALLET_KEY, ENCRYPTION_KEY}

StartVars ==
    <<received, cur, invoked, replies, threw, asyncPending, retries,
      queueVars, retryVars, tossVars, intervalVars>>

\* examples/xmtp-helper/index.ts, module top level: validateEnvironment
ValidateEnvironment ==
    /\ example = "helper"
    /\ pc = "loading"
    /\ LET v == validateEnvironment(Required, processEnv, rootEnv)
       IN  /\ processEnv' = v.env
           /\ pc' = IF v.exit THEN "exited" ELSE "configured"
           /\ exitCode' = IF v.exit THEN 1 ELSE exitCode
           /\ logged' = v.exit
    /\ UNCHANGED <<example, rootEnv, scriptVars, secretVars, sub, StartVars>>

\* examples/gm/index.ts, module top level: a missing key throws, and the
\* uncaught exception ends the process with code 1
TopLevel ==
    /\ example = "gm"
    /\ pc = "loading"
    /\ LET missing == Falsy(processEnv[WALLET_KEY]) \/ Falsy(processEnv[ENCRYPTION_KEY])
       IN  /\ pc' = IF missing THEN "exited" ELSE "configured"
           /\ exitCode' = IF missing THEN 1 ELSE exitCode
           /\ logged' = missing
    /\ UNCHANGED <<example, intervalVars, envVars, scriptVars, secretVars, sub, StartVars>>

\* XmtpHelper.createAndStart and main of gm up to the opening of the
\* stream: a configuration with an empty field and a failed Client.create
\* reject, and the catch of the caller logs the error
Start ==
    /\ example \in StartExamples
    /\ pc = "configured"
    /\ \E clientOk \in BOOLEAN :
          LET config == \E v \in Required : Falsy(processEnv[v])
              ok == clientOk /\ ~(example = "helper" /\ config)
          IN  /\ pc' = IF ok THEN "running" ELSE "rejected"
              /\ sub' = IF ok THEN "open" ELSE sub
              /\ logged' = ~ok
    /\ UNCHANGED <<example, intervalVars, envVars, scriptVars, secretVars, exitCode, StartVars>>

----------------------------------------------------------------------------
(* examples/xmtp-revoke-installations/index.ts: the script reads the       *)
(* installations of the inbox, revokes the first ones of the array when the *)
(* limit is reached, and creates a client, which adds an installation.     *)
(* An installation is the number of its creation, and inboxState lists     *)
(* the installations in the order of their creation.                       *)

MAX_INSTALLATIONS == 5

MaxInstallations == 7

\* the installations an inbox can have before the run: the ascending
\* sequences of numbers up to MaxInstallations
RECURSIVE ascending(_)
ascending(S) ==
    IF S = {} THEN <<>>
    ELSE LET first == CHOOSE x \in S : \A y \in S : x <= y
         IN  <<first>> \o ascending(S \ {first})

InboxStates == { ascending(S) : S \in SUBSET (1..MaxInstallations) }

\* Array.prototype.slice(0, end)
slice(arr, end) == SubSeq(arr, 1, IF end < Len(arr) THEN end ELSE Len(arr))

\* the installation that is about to be created is not counted
excessCountNoNew(n) == n - MAX_INSTALLATIONS

\* excessCount of main
excessCount(n) == n - MAX_INSTALLATIONS + 1

\* installationsToRevoke of main
installationsToRevoke(current) == Range(slice(current, excessCount(Len(current))))

\* Array.prototype.filter, keeping the elements outside a set
RECURSIVE without(_, _)
without(arr, gone) ==
    IF arr = <<>> THEN <<>>
    ELSE IF Head(arr) \in gone THEN without(Tail(arr), gone)
    ELSE <<Head(arr)>> \o without(Tail(arr), gone)

ScriptFrame ==
    <<example, envVars, envFile, secretVars, exitCode, sub, received, cur, invoked, replies, threw,
      asyncPending, retries, queueVars, retryVars, tossVars, intervalVars>>

\* Client.inboxStateFromInboxIds
InboxState ==
    /\ example = "revoke"
    /\ pc = "start"
    /\ \E ok \in BOOLEAN :
          /\ currentInstallations' = IF ok THEN installations ELSE currentInstallations
          /\ pc' = IF ok THEN "read" ELSE "rejected"
          /\ logged' = ~ok
    /\ UNCHANGED <<installations, ScriptFrame>>

\* the if of main and Client.revokeInstallations
RevokeInstallations ==
    /\ example = "revoke"
    /\ pc = "read"
    /\ IF Len(currentInstallations) >= MAX_INSTALLATIONS
       THEN \E ok \in BOOLEAN :
               /\ installations' =
                     IF ok THEN without(installations,
                                        installationsToRevoke(currentInstallations))
                     ELSE installations
               /\ pc' = IF ok THEN "create" ELSE "rejected"
               /\ logged' = ~ok
       ELSE /\ pc' = "create"
            /\ UNCHANGED <<installations, logged>>
    /\ UNCHANGED <<currentInstallations, ScriptFrame>>

\* Client.create adds an installation to the inbox
ClientCreate ==
    /\ example = "revoke"
    /\ pc = "create"
    /\ \E ok \in BOOLEAN :
          /\ installations' =
                IF ok THEN Append(installations, MaxInstallations + 1) ELSE installations
          /\ pc' = IF ok THEN "done" ELSE "rejected"
          /\ logged' = ~ok
    /\ UNCHANGED <<currentInstallations, ScriptFrame>>

----------------------------------------------------------------------------
(* unnamed/part_012: the secret-word agent *)

SECRET_WORD == <<"G", "o">>

S_go == <<"g", "o">>
S_GO == <<" ", "G", "O", "\n">>
S_no == <<"n", "o">>

SecretSenders == Senders \cup { <<"e", "f">> }

\* every text in a DM, and one text with every content type and conversation
SecretMessages ==
    [sender : SecretSenders, typeId : {"text"}, conv : {"dm1"},
     content : {S_go, S_GO, S_no, S_hi}]
    \cup [sender : SecretSenders, typeId : TypeIds, conv : Convs, content : {S_go}]

\* the points at which handling a message can fail
FailurePoints == {"newGroup", "addMembers", "send", "groupSend", "details"}

\* no call fails, or a call fails and the two attempts to send the error
\* message succeed or fail
Failures ==
    {[failAt |-> "none", errorOk |-> TRUE, retryOk |-> TRUE]}
    \cup [failAt : FailurePoints, errorOk : BOOLEAN, retryOk : {TRUE}]
    \cup [failAt : FailurePoints, errorOk : {FALSE}, retryOk : {FALSE}]

\* the message is compared as it was typed
matchesSecretExact(messageContent) == messageContent = toLowerCase(SECRET_WORD)

\* messageContent.trim().toLowerCase() === GROUP_CONFIG.secretWord.toLowerCase()
matchesSecret(messageContent) ==
    toLowerCase(trim(messageContent)) = toLowerCase(SECRET_WORD)

\* the catch blocks: the error message is sent, and a failure of that send
\* is caught again by main, which tries once more and logs a second failure
errorReply(errorOk, retryOk) ==
    IF errorOk \/ retryOk THEN <<"error">> ELSE <<>>

\* handleSuccessfulPassphrase: the replies into the conversation
successReplies(failAt, errorOk, retryOk) ==
    IF failAt = "none" THEN <<"success", "details">>
    ELSE IF failAt \in {"newGroup", "addMembers", "send"} THEN errorReply(errorOk, retryOk)
    ELSE <<"success">> \o errorReply(errorOk, retryOk)

\* the loop body of main
secretMain(m, failAt, errorOk, retryOk) ==
    IF IsSelf(m) \/ IsNotText(m) THEN Skipped
    ELSE IF m.conv \notin KnownConvs THEN Skipped
    ELSE IF m.sender \in usersInGroup
         THEN IF failAt = "send"
              THEN Outcome(TRUE, errorReply(errorOk, retryOk), TRUE, TRUE, "running")
              ELSE Outcome(TRUE, <<"alreadyInGroup">>, FALSE, FALSE, "running")
    ELSE IF matchesSecret(m.content)
         THEN Outcome(TRUE, successReplies(failAt, errorOk, retryOk),
                      failAt # "none", failAt # "none", "running")
    ELSE IF failAt = "send"
         THEN Outcome(TRUE, errorReply(errorOk, retryOk), TRUE, TRUE, "running")
    ELSE Outcome(TRUE, <<"invalid">>, FALSE, FALSE, "running")

SecretMessage ==
    /\ example = "secret"
    /\ Live
    /\ \E m \in SecretMessages :
          IF IsSelf(m) \/ IsNotText(m) \/ m.conv \notin KnownConvs
          THEN /\ Deliver(m, Skipped)
               /\ UNCHANGED secretVars
          ELSE \E f \in Failures :
                 LET o == secretMain(m, f.failAt, f.errorOk, f.retryOk)
                     passed == m.sender \notin usersInGroup /\ matchesSecret(m.content)
                 IN  /\ Deliver(m, o)
                     /\ groupMembers' =
                           IF passed /\ f.failAt # "newGroup"
                           THEN groupMembers \cup {m.sender} ELSE groupMembers
                     /\ usersInGroup' =
                           IF passed /\ f.failAt \in {"none", "details"}
                           THEN usersInGroup \cup {m.sender} ELSE usersInGroup
    /\ UNCHANGED <<example, intervalVars, envVars, scriptVars, tossVars, sub, asyncPending, retries,
                   queueVars, retryVars>>

----------------------------------------------------------------------------
(* The gen:keys scripts:                                                   *)
(*   "generateKeys" scripts/generateKeys.ts                                *)
(*   "part026"      unnamed/part_026                                       *)
(*   "part027"      unnamed/part_027                                       *)

KeyScripts == {"generateKeys", "part026", "part027"}

\* the keys a run can generate
Keys == { <<"a">>, <<"b">> }

S_generic == <<"#", " ", "g", "e", "n", "e", "r", "i", "c", " ", "k", "e", "y", "s", "\n">>
S_wallet == <<"W", "A", "L", "L", "E", "T", "_", "K", "E", "Y", "=">>
S_encryption == <<"E", "N", "C", "R", "Y", "P", "T", "I", "O", "N", "_", "K", "E", "Y", "=">>
S_xmtp_env == <<"X", "M", "T", "P", "_", "E", "N", "V", "=">>
S_xmtp_dev == <<"X", "M", "T", "P", "_", "E", "N", "V", "=", "d", "e", "v", "\n">>
S_public == <<"#", " ", "p", "u", "b", "l", "i", "c", " ", "k", "e", "y", " ", "i", "s", " ">>

\* String.prototype.includes
includes(s, part) ==
    \E i \in 1..(Len(s) - Len(part) + 1) : SubSeq(s, i, i + Len(part) - 1) = part

\* the text each script writes
envContent(walletKey, encryptionKeyHex, existingEnv) ==
    IF example = "part026"
    THEN S_wallet \o walletKey \o <<"\n">> \o S_encryption \o encryptionKeyHex \o <<"\n">>
    ELSE (IF example = "generateKeys" THEN <<"\n">> ELSE <<>>)
         \o S_generic \o S_wallet \o walletKey \o <<"\n">>
         \o S_encryption \o encryptionKeyHex \o <<"\n">>
         \o (IF example = "generateKeys" /\ ~includes(existingEnv, S_xmtp_env)
             THEN S_xmtp_dev ELSE <<>>)
         \o S_public \o walletKey \o <<"\n">>

\* fs.writeFile: with the flag "a" the data is appended to the file, without
\* it the file is replaced
writeFile(file, data, flag) ==
    IF flag = "a" /\ file # NoFile THEN file \o data ELSE data

\* the Node.js versions the script can be run with
NodeMajors == {18, 20}

\* the module top level of a script: the version check, the keys, the write
GenerateKeys ==
    /\ example \in KeyScripts
    /\ pc = "start"
    /\ \E major \in NodeMajors, walletKey \in Keys, encryptionKeyHex \in Keys,
          written \in BOOLEAN :
          IF example # "part026" /\ major < 20
          THEN /\ pc' = "exited"
               /\ exitCode' = 1
               /\ logged' = TRUE
               /\ UNCHANGED envFile
          ELSE LET existingEnv == IF envFile = NoFile THEN <<>> ELSE envFile
                   data == envContent(walletKey, encryptionKeyHex, existingEnv)
               IN  /\ envFile' =
                         IF written
                         THEN writeFile(envFile, data, IF example = "part026" THEN "w" ELSE "a")
                         ELSE envFile
                   /\ pc' = IF written THEN "done" ELSE "exited"
                   /\ exitCode' = IF written THEN exitCode ELSE 1
                   /\ logged' = ~written
    /\ UNCHANGED <<example, intervalVars, envVars, installations, currentInstallations, secretVars, sub,
                   received, cur, invoked, replies, threw, asyncPending, retries,
                   queueVars, retryVars, tossVars>>

----------------------------------------------------------------------------
(* the subscription fails: the for-await loop over the stream ends or       *)
(* throws, whichever the SDK does; what escapes main is logged by its catch *)
(* The queue examples catch the error in their receiver and stay alive      *)
(* (process.stdin.resume, the sender's interval); the receivers of the      *)
(* dual-client examples and of part_015 set a timer that starts them again. *)

ExitsOnError == {"gmExit", "langchain"}

\* the setInterval timers one call of startReceiverInstallation / startReceiver
\* sets before it opens the stream: the periodic sync in the three receivers,
\* processMissedMessages in xmtp-dual-client only
startedIntervals(which) ==
    IF which = "sync" THEN (IF example \in RestartingReceivers THEN 1 ELSE 0)
    ELSE IF example = "dual" THEN 1 ELSE 0

\* the timers the catch block of the receiver clears: clearInterval(syncIntervalId)
\* of part_015; the other receivers clear nothing
clearedIntervals(which) ==
    IF which = "sync" /\ example = "part015" THEN 1 ELSE 0

StreamFail ==
    /\ example \in StreamExamples \cup QueueExamples
    /\ pc = "running"
    /\ sub = "open"
    /\ sub' = "failed"
    /\ \E how \in {"ends", "throws"} :
          /\ pc' = IF example \in QueueExamples THEN pc
                   ELSE IF how = "ends" THEN "returned"
                   ELSE IF example \in ExitsOnError THEN "exited" ELSE "rejected"
          /\ exitCode' = IF how = "throws" /\ example \in ExitsOnError THEN 1 ELSE exitCode
          /\ IF how = "throws" /\ example \in RestartingReceivers
             THEN /\ timer' = restartDelay
                  /\ waited' = 0
             ELSE UNCHANGED <<timer, waited>>
          /\ syncIntervals' = IF how = "throws" THEN syncIntervals - clearedIntervals("sync")
                               ELSE syncIntervals
          /\ missedIntervals' = IF how = "throws"
                                 THEN missedIntervals - clearedIntervals("missed")
                                 ELSE missedIntervals
    /\ fails' = IF example \in RestartingReceivers THEN fails + 1 ELSE fails
    /\ UNCHANGED <<example, envVars, scriptVars, secretVars, tossVars, received, cur, invoked, replies, threw, logged,
                   asyncPending, retries, queueVars, resubs, lastWait>>

----------------------------------------------------------------------------
(* The outbound reply queue:                                               *)
(*   "fifo"      unnamed/part_005 (the queue agent, one client)            *)
(*   "dual"      examples/xmtp-dual-client/index.ts                        *)
(*   "queueDual" examples/xmtp-queue-dual-client/index.ts                  *)
(*   "part015"   unnamed/part_015                                          *)
(* JavaScript runs one synchronous stretch of code at a time; an action is *)
(* such a stretch: the body of the receiver's loop, the part of            *)
(* processMessageQueue before its first await, and its completion.         *)

\* the examples whose processMessageQueue sorts by priority and timestamp
SortingExamples == {"dual", "queueDual", "part015"}

QueueSenders == { <<"a", "b">>, <<"c", "d">> }

QueueMessages ==
    [sender : QueueSenders, typeId : {"text", "reaction"}, conv : {"dm1", "grp1"},
     content : {S_hi}]

\* the QueuedMessage a reply to message number n is queued as; content
\* stands for the reply text, which names the message it answers
QueuedMessage(kind, n, m, prio) ==
    [conversationId |-> m.conv,
     content |-> [kind |-> kind, to |-> n, id |-> nextReply],
     priority |-> prio,
     timestamp |-> now]

\* the priority is not compared
BeforeByTimestamp(a, b) == a.timestamp < b.timestamp

\* the comparator of messageQueue.sort: TRUE when a goes before b
Before(a, b) ==
    IF a.priority # b.priority THEN a.priority > b.priority
    ELSE a.timestamp < b.timestamp

\* Array.prototype.sort with that comparator; the sort is stable
RECURSIVE insertSorted(_, _)
insertSorted(q, x) ==
    IF q = <<>> THEN <<x>>
    ELSE IF Before(x, Head(q)) THEN <<x>> \o q
    ELSE <<Head(q)>> \o insertSorted(Tail(q), x)

RECURSIVE sortQueue(_)
sortQueue(q) ==
    IF q = <<>> THEN <<>>
    ELSE insertSorted(sortQueue(SubSeq(q, 1, Len(q) - 1)), q[Len(q)])

\* the queue as processMessageQueue sees it before messageQueue.shift()
Arranged(q) == IF example \in SortingExamples THEN sortQueue(q) ELSE q

\* messageQueue.shift(): the queue that is left
shift(q) == Tail(q)

\* the loop body of setupMessageStream / setupMessageStreams / startReceiver
ReceiverMessage ==
    /\ example \in QueueExamples
    /\ Subscribed
    /\ received < MaxInbound
    /\ nextReply <= MaxReplies
    /\ \E m \in QueueMessages \cup {NullMsg} :
          LET pass == ~(IsSelf(m) \/ IsNotText(m))
              n == received + 1
          IN
          /\ Deliver(m, IF pass THEN Outcome(TRUE, <<"queued">>, FALSE, FALSE, "running")
                        ELSE Skipped)
          /\ history' = IF m = NullMsg THEN history
                        ELSE history \cup {[id |-> n, msg |-> m, sentAt |-> now]}
          /\ messageQueue' = IF pass
                             THEN Append(messageQueue, QueuedMessage("reply", n, m, 1))
                             ELSE messageQueue
          /\ nextReply' = IF pass THEN nextReply + 1 ELSE nextReply
    /\ notFound' = FALSE
    /\ UNCHANGED <<example, intervalVars, envVars, scriptVars, secretVars, tossVars, sub, asyncPending, retries, inflight, sentLog, discarded, now,
                   retryVars>>

\* the messages of conversation c that processMissedMessages answers: not from
\* the agent, text, and sent within the last minute
recentMissedMessages(c) ==
    { h \in history :
        /\ h.msg.conv = c
        /\ toLowerCase(h.msg.sender) # toLowerCase(ClientInboxId)
        /\ h.msg.typeId = "text"
        /\ h.sentAt > now - MinuteTicks }

RECURSIVE queueMissed(_, _, _)
queueMissed(q, hs, k) ==
    IF hs = {} THEN q
    ELSE LET h == CHOOSE x \in hs : \A y \in hs : x.id <= y.id IN
         queueMissed(Append(q, [conversationId |-> h.msg.conv,
                                content |-> [kind |-> "missed", to |-> h.id, id |-> k],
                                priority |-> 2,
                                timestamp |-> now]),
                     hs \ {h}, k + 1)

\* processMissedMessages of the dual-client example, for one conversation:
\* a reply is queued for every recent message of the conversation
ProcessMissedMessages ==
    /\ example = "dual"
    /\ pc = "running"
    /\ \E c \in {"dm1", "grp1"} :
          LET hs == recentMissedMessages(c) IN
          /\ hs # {}
          /\ nextReply + Cardinality(hs) <= MaxReplies + 1
          /\ messageQueue' = queueMissed(messageQueue, hs, nextReply)
          /\ nextReply' = nextReply + Cardinality(hs)
    /\ notFound' = FALSE
    /\ UNCHANGED <<example, intervalVars, envVars, scriptVars, secretVars, tossVars, pc, exitCode, sub, received, cur, invoked, replies, threw,
                   logged, asyncPending, retries, inflight, sentLog, discarded,
                   history, now,
                   retryVars>>

\* processMessageQueue up to its first await: return on an empty queue,
\* sort (where the example sorts), shift
ProcessMessageQueue ==
    /\ example \in QueueExamples
    /\ pc = "running"
    /\ messageQueue # <<>>
    /\ LET q == Arranged(messageQueue) IN
          /\ inflight' = Append(inflight, Head(q))
          /\ messageQueue' = shift(q)
    /\ notFound' = FALSE
    /\ UNCHANGED <<example, intervalVars, envVars, scriptVars, secretVars, tossVars, pc, exitCode, sub, received, cur, invoked, replies, threw,
                   logged, asyncPending, retries, sentLog, discarded, history, now,
                   nextReply,
                   retryVars>>

\* every run ends in the catch block
CompletionAlwaysRequeues(how) == "requeue"

\* what the run does with its message once sync, getConversationById and
\* send have answered
Completion(how) ==
    IF how = "sent" THEN "sent"
    ELSE IF how = "failed" THEN "requeue"
    ELSE IF example = "queueDual" THEN "requeue"   \* throws "Conversation not found"
    ELSE "discard"

\* the rest of processMessageQueue
SendComplete ==
    /\ example \in QueueExamples
    /\ pc = "running"
    /\ \E i \in 1..Len(inflight), how \in {"sent", "failed", "notFound"} :
          LET message == inflight[i]
              c == Completion(how)
          IN
          /\ inflight' = SubSeq(inflight, 1, i - 1) \o SubSeq(inflight, i + 1, Len(inflight))
          /\ sentLog' = IF c = "sent" THEN Append(sentLog, message) ELSE sentLog
          /\ messageQueue' = IF c = "requeue" THEN Append(messageQueue, message)
                             ELSE messageQueue
          /\ discarded' = IF c = "discard" THEN discarded \cup {message} ELSE discarded
          /\ notFound' = (how = "notFound")
    /\ UNCHANGED <<example, intervalVars, envVars, scriptVars, secretVars, tossVars, pc, exitCode, sub, received, cur, invoked, replies, threw,
                   logged, asyncPending, retries, history, now, nextReply,
                   retryVars>>

\* a run of processMessageQueue that does not end in its catch block: the
\* message is sent or discarded and nothing is pushed back
SendSettles ==
    /\ SendComplete
    /\ messageQueue' = messageQueue

\* time passes
Tick ==
    /\ example \in QueueExamples
    /\ now < MaxTime
    /\ now' = now + 1
    /\ notFound' = FALSE
    /\ UNCHANGED <<example, intervalVars, envVars, scriptVars, secretVars, tossVars, pc, exitCode, sub, received, cur, invoked, replies, threw,
                   logged, asyncPending, retries, messageQueue, inflight, sentLog,
                   discarded, history, nextReply,
                   retryVars>>

----------------------------------------------------------------------------
(* The stream retry helper:                                                *)
(*   "retryHelper"  unnamed/part_016 (XmtpHelper with retry)               *)
(*   "retryReadme"  unnamed/part_006 (the stream restart example)          *)
(* The SDK calls onFail when the stream fails.  Time is counted in         *)
(* milliseconds and passes in steps of TickMs.                             *)

\* the delay retry() passes to setTimeout
retryDelay == RETRY_INTERVAL

\* one retry too many
retryOffByOne(r) == r >= 0

\* retry(): TRUE when another handleStream is scheduled, FALSE when the
\* process is ended
retry(r) == r > 0

\* onFail -> retry
OnFail ==
    /\ example \in RetryExamples
    /\ Subscribed
    /\ sub' = "failed"
    /\ fails' = fails + 1
    /\ IF retry(retries)
       THEN /\ retries' = retries - 1
            /\ timer' = retryDelay
            /\ waited' = 0
            /\ UNCHANGED <<pc, exitCode>>
       ELSE /\ pc' = "exited"
            /\ exitCode' = 1
            /\ UNCHANGED <<retries, timer, waited>>
    /\ UNCHANGED <<example, intervalVars, envVars, scriptVars, secretVars, tossVars, received, cur, invoked, replies, threw, logged,
                   asyncPending, queueVars, resubs, lastWait>>

\* time passes while the timer of retry() or of the receiver's restart is
\* pending
TimePasses ==
    /\ example \in RetryExamples \cup RestartingReceivers
    /\ pc = "running"
    /\ timer > 0
    /\ LET d == IF timer < TickMs THEN timer ELSE TickMs IN
          /\ timer' = timer - d
          /\ waited' = waited + d
    /\ UNCHANGED <<example, intervalVars, envVars, scriptVars, secretVars, tossVars, pc, exitCode, sub, received, cur, invoked, replies, threw,
                   logged, asyncPending, retries, queueVars, resubs, fails, lastWait>>

\* the timer fires: handleStream syncs and subscribes again; its promise is
\* dropped (void), so a failure of sync or of the subscription is an
\* unhandled rejection, which ends the process with code 1
HandleStream ==
    /\ example \in RetryExamples
    /\ pc = "running"
    /\ timer = 0
    /\ timer' = -1
    /\ lastWait' = waited
    /\ \E ok \in BOOLEAN :
          IF ok THEN /\ sub' = "open"
                     /\ resubs' = resubs + 1
                     /\ UNCHANGED <<pc, exitCode>>
                ELSE /\ pc' = "exited"
                     /\ exitCode' = 1
                     /\ UNCHANGED <<sub, resubs>>
    /\ UNCHANGED <<example, intervalVars, envVars, scriptVars, secretVars, tossVars, received, cur, invoked, replies, threw, logged,
                   asyncPending, retries, queueVars, fails, waited>>

\* one iteration of the for-await loop of handleStream of part_016, which is
\* the loop of startMessageStream of xmtp-helper.ts
RetryHelperMessage ==
    /\ example = "retryHelper"
    /\ Live
    /\ \E m \in PlainMessages \cup {NullMsg}, addrOk \in BOOLEAN,
          h \in HandlerResults, sendOk \in BOOLEAN :
          Deliver(m, startMessageStream(m, addrOk, h, sendOk))
    /\ UNCHANGED <<example, intervalVars, envVars, scriptVars, secretVars, tossVars, sub, asyncPending, retries, queueVars, retryVars>>

----------------------------------------------------------------------------
(* Receivers that start their stream again without the retry helper.       *)

\* the timer of startReceiverInstallation / startReceiver fires: the
\* function runs again and subscribes; a subscription that throws is caught
\* like a failure of the stream and sets the timer once more
ReceiverRestart ==
    /\ example \in RestartingReceivers
    /\ pc = "running"
    /\ timer = 0
    /\ resubs < MaxRestarts
    /\ lastWait' = waited
    /\ \E ok \in BOOLEAN :
          IF ok THEN /\ sub' = "open"
                     /\ resubs' = resubs + 1
                     /\ timer' = -1
                     /\ syncIntervals' = syncIntervals + startedIntervals("sync")
                     /\ missedIntervals' = missedIntervals + startedIntervals("missed")
                     /\ UNCHANGED <<fails, waited>>
                ELSE /\ fails < MaxRestarts
                     /\ fails' = fails + 1
                     /\ timer' = restartDelay
                     /\ waited' = 0
                     /\ syncIntervals' = syncIntervals + startedIntervals("sync")
                                            - clearedIntervals("sync")
                     /\ missedIntervals' = missedIntervals + startedIntervals("missed")
                                              - clearedIntervals("missed")
                     /\ UNCHANGED <<sub, resubs>>
    /\ UNCHANGED <<example, envVars, scriptVars, secretVars, tossVars, pc, exitCode, received, cur, invoked, replies, threw,
                   logged, asyncPending, retries, queueVars>>

\* the body of the for-await loop of the while (true) loop; TRUE for again
\* when what it threw was caught by the loop, which then subscribes again
gmLoopMain(m, ioOk) ==
    IF IsSelf(m) \/ IsNotText(m) THEN [o |-> Skipped, again |-> FALSE]
    ELSE IF m.conv \notin KnownConvs THEN [o |-> Skipped, again |-> FALSE]
    ELSE IF ioOk
         THEN [o |-> Outcome(TRUE, <<"gm">>, FALSE, FALSE, "running"), again |-> FALSE]
         ELSE [o |-> Outcome(TRUE, <<>>, TRUE, TRUE, "running"), again |-> TRUE]

GmLoopMessage ==
    /\ example = "gmLoop"
    /\ Live
    /\ \E m \in PlainMessages \cup {NullMsg}, ioOk \in BOOLEAN :
          LET r == gmLoopMain(m, ioOk) IN
          /\ Deliver(m, r.o)
          /\ IF r.again
             THEN /\ resubs < MaxRestarts
                  /\ resubs' = resubs + 1
                  /\ lastWait' = restartDelay
             ELSE UNCHANGED <<resubs, lastWait>>
    /\ UNCHANGED <<example, intervalVars, envVars, scriptVars, secretVars, tossVars, sub, asyncPending, retries, queueVars, timer, waited,
                   fails>>

\* the stream of the while (true) loop ends or throws: the error is logged
\* and the loop calls streamAllMessages again at once
GmLoopFail ==
    /\ example = "gmLoop"
    /\ Subscribed
    /\ resubs < MaxRestarts
    /\ fails' = fails + 1
    /\ resubs' = resubs + 1
    /\ lastWait' = restartDelay
    /\ UNCHANGED <<example, intervalVars, envVars, scriptVars, secretVars, tossVars, pc, exitCode, sub, received, cur, invoked, replies, threw,
                   logged, asyncPending, retries, queueVars, timer, waited>>

----------------------------------------------------------------------------
(* Toss manager of the cointoss example: the toss files of the storage     *)
(* service, TossManager, and the create / join / close commands.           *)
(*                                                                         *)
(* The message loop awaits the command handler, so one command runs at a   *)
(* time. The only state a command leaves behind between two of its awaits  *)
(* is the IN_PROGRESS record executeCoinToss writes before it pays out;    *)
(* the close command is therefore two steps, CloseStart and CloseFinish.   *)

TossIds == 1..MaxTosses

InboxIds == << <<"p", "1">>, <<"p", "2">>, <<"p", "3">>, <<"p", "4">> >>

Players == { InboxIds[i] : i \in 1..MaxPlayers }

\* the users are interchangeable: the first of them sends the prompts
Creators == {InboxIds[1]}

O_yes == <<"y", "e", "s">>

O_no == <<"n", "o">>

O_NO == <<"N", "O">>

O_maybe == <<"m", "a", "y", "b", "e">>

\* the options of a parsed prompt ("Will it rain tomorrow for 5")
ParsedOptions == <<O_yes, O_no>>

\* the option argument of a join command
OptionArgs == {O_yes, O_NO}

\* the option argument of a close command
WinningArgs == {O_yes, O_NO, O_maybe}

A_5 == <<"5">>

\* the amount of a parsed prompt
Amounts == {A_5}

Digits == <<"0", "1", "2", "3", "4", "5", "6", "7", "8", "9">>

IsDigit(ch) == \E i \in 1..10 : Digits[i] = ch

DigitValue(ch) == (CHOOSE i \in 1..10 : Digits[i] = ch) - 1

RECURSIVE GCD(_, _)
GCD(a, b) == IF b = 0 THEN a ELSE GCD(b, a % b)

\* a number, kept exact as a reduced fraction
Fraction(n, d) == [num |-> n \div GCD(n, d), den |-> d \div GCD(n, d)]

NaN == [num |-> 0, den |-> 0]

RECURSIVE Pow10(_)
Pow10(n) == IF n = 0 THEN 1 ELSE 10 * Pow10(n - 1)

\* the first position from i on that holds no digit
RECURSIVE digitsEnd(_, _)
digitsEnd(s, i) == IF i <= Len(s) /\ IsDigit(s[i]) THEN digitsEnd(s, i + 1) ELSE i

RECURSIVE digitsValue(_)
digitsValue(d) ==
    IF d = <<>> THEN 0
    ELSE 10 * digitsValue(SubSeq(d, 1, Len(d) - 1)) + DigitValue(d[Len(d)])

\* parseFloat of an unsigned decimal string: the longest numeric prefix,
\* NaN when there is none
parseFloat(s) ==
    LET t == trimStart(s)
        e1 == digitsEnd(t, 1)
        int == SubSeq(t, 1, e1 - 1)
        hasDot == e1 <= Len(t) /\ t[e1] = "."
        e2 == IF hasDot THEN digitsEnd(t, e1 + 1) ELSE e1
        frac == IF hasDot THEN SubSeq(t, e1 + 1, e2 - 1) ELSE <<>>
    IN  IF int = <<>> /\ frac = <<>> THEN NaN
        ELSE Fraction(digitsValue(int \o frac), Pow10(Len(frac)))

\* number * k
times(f, k) == IF f = NaN THEN NaN ELSE Fraction(f.num * k, f.den)

\* number / k, for k > 0
over(f, k) == IF f = NaN THEN NaN ELSE Fraction(f.num, f.den * k)

\* no toss file: getToss gives null
NoToss ==
    [id |-> 0, creator |-> <<>>, tossAmount |-> <<>>, status |-> "none",
     participants |-> <<>>, participantOptions |-> <<>>, tossOptions |-> Undefined,
     tossResult |-> <<>>, winner |-> <<>>, paymentSuccess |-> FALSE]

\* no executeCoinToss is under way
NoClose == [toss |-> NoToss, winningOption |-> Null]

\* the command paid nothing out
NoPrize ==
    [id |-> 0, tossAmount |-> <<>>, participants |-> <<>>, winningOption |-> <<>>,
     winners |-> <<>>, prizePerWinner |-> NaN, transfers |-> {},
     paymentSuccess |-> FALSE]

\* the escapes of JSON.stringify: a backslash before every quote and backslash
RECURSIVE escape(_)
escape(t) ==
    IF t = <<>> THEN <<>>
    ELSE (IF t[1] \in {"\"", "\\"} THEN <<"\\", t[1]>> ELSE <<t[1]>>) \o escape(Tail(t))

\* JSON.stringify of a string
jsonString(s) == <<"\"">> \o escape(s) \o <<"\"">>

\* the position after the JSON string that starts at the quote at i
RECURSIVE stringEnd(_, _)
stringEnd(text, i) ==
    IF i >= Len(text) THEN Len(text) + 1
    ELSE IF text[i + 1] = "\\" THEN stringEnd(text, i + 2)
    ELSE IF text[i + 1] = "\"" THEN i + 2
    ELSE stringEnd(text, i + 1)

\* the characters between the quotes, the backslashes of the escapes taken out
RECURSIVE unescape(_)
unescape(t) ==
    IF t = <<>> THEN <<>>
    ELSE IF t[1] = "\\" /\ Len(t) >= 2 THEN <<t[2]>> \o unescape(SubSeq(t, 3, Len(t)))
    ELSE <<t[1]>> \o unescape(Tail(t))

\* JSON.parse of the text of a string
parseString(text) == unescape(SubSeq(text, 2, Len(text) - 1))

\* JSON.stringify of an array of strings
RECURSIVE jsonItems(_)
jsonItems(arr) ==
    IF arr = <<>> THEN <<>>
    ELSE IF Len(arr) = 1 THEN jsonString(arr[1])
    ELSE jsonString(arr[1]) \o <<",">> \o jsonItems(Tail(arr))

jsonArray(arr) == <<"[">> \o jsonItems(arr) \o <<"]">>

\* JSON.parse of the items of an array of strings, from position i
RECURSIVE parseItems(_, _)
parseItems(text, i) ==
    IF i > Len(text) \/ text[i] # "\"" THEN <<>>
    ELSE LET e == stringEnd(text, i)
         IN  <<parseString(SubSeq(text, i, e - 1))>> \o parseItems(text, e + 1)

parseArray(text) == parseItems(text, 2)

\* JSON.stringify(toss): the file content; a property that is undefined is
\* left out of it
stringify(toss) ==
    [toss EXCEPT !.tossAmount = jsonString(@),
                 !.tossOptions = IF @ = Undefined THEN Undefined ELSE jsonArray(@)]

\* JSON.parse of a file content
parse(data) ==
    [data EXCEPT !.tossAmount = parseString(@),
                 !.tossOptions = IF @ = Undefined THEN Undefined ELSE parseArray(@)]

\* StorageService.saveToFile through saveToss / updateToss: a failed write is
\* logged and the file keeps what it held
saveToss(st, toss, written) ==
    IF written /\ toss.id \in DOMAIN st THEN [st EXCEPT ![toss.id] = stringify(toss)] ELSE st

\* StorageService.getToss: the parsed content of the toss file, null without
\* a file
getToss(st, tossId) ==
    IF tossId \in DOMAIN st /\ st[tossId] # NoToss THEN parse(st[tossId]) ELSE NoToss

\* the highest id among the toss files, 0 without files or when the
\* directory cannot be read
getLastIdToss(st, dirRead) ==
    LET ids == { i \in TossIds : st[i] # NoToss }
    IN  IF ~dirRead \/ ids = {} THEN 0
        ELSE CHOOSE i \in ids : \A j \in ids : j <= i

\* the toss object createGame builds; winner is the list of inbox ids that
\* the code joins with ","
newToss(tossId, creator, tossAmount) ==
    [id |-> tossId, creator |-> creator, tossAmount |-> tossAmount,
     status |-> "CREATED", participants |-> <<>>, participantOptions |-> <<>>,
     tossOptions |-> Undefined, tossResult |-> <<>>, winner |-> <<>>,
     paymentSuccess |-> FALSE]

\* createGame: [id, st, toss], the toss being the reloaded file if there is one
createGame(st, creator, tossAmount, dirRead, written) ==
    LET tossId == getLastIdToss(st, dirRead) + 1
        toss == newToss(tossId, creator, tossAmount)
        saved == saveToss(st, toss, written)
        updatedToss == getToss(saved, tossId)
    IN  [id |-> tossId, st |-> saved,
         toss |-> IF updatedToss # NoToss THEN updatedToss ELSE toss]

\* Array.prototype.some / includes over the lower-cased options
includesOption(options, option) ==
    \E i \in 1..Len(options) : toLowerCase(options[i]) = toLowerCase(option)

\* a participant may join again
joinGameAgain(toss, player) ==
    IF toss = NoToss THEN "Toss not found"
    ELSE IF toss.status # "CREATED" /\ toss.status # "WAITING_FOR_PLAYER"
         THEN "Toss is not accepting players"
    ELSE "ok"

\* joinGame: the message of the error it throws, "ok" when it returns
joinGame(toss, player) ==
    IF toss = NoToss THEN "Toss not found"
    ELSE IF toss.status # "CREATED" /\ toss.status # "WAITING_FOR_PLAYER"
         THEN "Toss is not accepting players"
    ELSE IF player \in Range(toss.participants) THEN "You are already in this toss"
    ELSE "ok"

\* the status addPlayerToGame gives a toss with n participants
statusAfterJoin(status, n) ==
    IF n = 1 THEN "WAITING_FOR_PLAYER"
    ELSE IF n >= 2 THEN "WAITING_FOR_PLAYER"
    ELSE status

\* addPlayerToGame up to its write: [err, toss]
addPlayerToGame(toss, player, chosenOption, hasPaid) ==
    LET err ==
            IF joinGame(toss, player) # "ok" THEN joinGame(toss, player)
            ELSE IF ~hasPaid THEN "Please pay to join the toss"
            ELSE IF /\ toss.tossOptions # Undefined
                    /\ Len(toss.tossOptions) > 0
                    /\ ~includesOption(toss.tossOptions, chosenOption)
                 THEN "Invalid option"
            ELSE "ok"
        participants == Append(toss.participants, player)
        participantOptions ==
            Append(toss.participantOptions, [inboxId |-> player, option |-> chosenOption])
    IN  [err |-> err,
         toss |-> IF err # "ok" THEN toss
                  ELSE [toss EXCEPT !.participants = participants,
                                    !.participantOptions = participantOptions,
                                    !.status = statusAfterJoin(toss.status,
                                                               Len(participants))]]

\* [...new Set(options)]: the distinct options, in the order of first appearance
RECURSIVE unique(_)
unique(s) ==
    IF s = <<>> THEN <<>>
    ELSE LET init == unique(SubSeq(s, 1, Len(s) - 1))
         IN  IF s[Len(s)] \in Range(init) THEN init ELSE Append(init, s[Len(s)])

\* the options executeCoinToss chooses from
tossChoices(toss) ==
    IF toss.tossOptions # Undefined /\ Len(toss.tossOptions) > 0
    THEN toss.tossOptions
    ELSE unique([i \in 1..Len(toss.participantOptions) |-> toss.participantOptions[i].option])

\* one player is enough
tooFewPlayersOne(toss) == Len(toss.participants) < 1

\* toss.participants.length < 2, which the close command and executeCoinToss
\* both refuse
tooFewPlayers(toss) == Len(toss.participants) < 2

\* the status of the toss is not looked at
executeChecksAnyStatus(toss) ==
    IF toss = NoToss THEN "Toss not found"
    ELSE IF Len(toss.participants) < 2 THEN "Toss needs at least 2 players"
    ELSE IF Len(toss.participantOptions) = 0 THEN "No participant options found in the toss"
    ELSE IF Len(tossChoices(toss)) < 2 THEN "Not enough unique options to choose from"
    ELSE "ok"

\* the checks of executeCoinToss before it sets IN_PROGRESS
executeChecks(toss) ==
    IF toss = NoToss THEN "Toss not found"
    ELSE IF toss.status # "WAITING_FOR_PLAYER" THEN "Toss is not ready for execution"
    ELSE IF tooFewPlayers(toss) THEN "Toss needs at least 2 players"
    ELSE IF Len(toss.participantOptions) = 0 THEN "No participant options found in the toss"
    ELSE IF Len(tossChoices(toss)) < 2 THEN "Not enough unique options to choose from"
    ELSE "ok"

\* options.find(...): the first option that is winningOption but for case
matchingOption(options, winningOption) ==
    IF includesOption(options, winningOption)
    THEN options[CHOOSE i \in 1..Len(options) :
                    /\ toLowerCase(options[i]) = toLowerCase(winningOption)
                    /\ \A j \in 1..(i - 1) :
                          toLowerCase(options[j]) # toLowerCase(winningOption)]
    ELSE Undefined

\* participantOptions.filter(...): the entries whose option is the matching one
RECURSIVE winnersOf(_, _)
winnersOf(participantOptions, matching) ==
    IF participantOptions = <<>> THEN <<>>
    ELSE LET init == winnersOf(SubSeq(participantOptions, 1, Len(participantOptions) - 1),
                               matching)
             last == participantOptions[Len(participantOptions)]
         IN  IF toLowerCase(last.option) = toLowerCase(matching)
             THEN Append(init, last)
             ELSE init

totalPot(toss) == times(parseFloat(toss.tossAmount), Len(toss.participants))

prizePerParticipant(toss, winners) == over(totalPot(toss), Len(toss.participants))

prizePerWinner(toss, winners) == over(totalPot(toss), Len(winners))

\* Number.prototype.toString of a toss id
RECURSIVE toString(_)
toString(n) ==
    IF n < 10 THEN <<Digits[n + 1]>>
    ELSE toString(n \div 10) \o <<Digits[(n % 10) + 1]>>

\* the toss file that the tossId of a command names, 0 when there is none
tossFile(tossId) ==
    IF \E i \in TossIds : toString(i) = tossId
    THEN CHOOSE i \in TossIds : toString(i) = tossId
    ELSE 0

\* words with one blank between them
RECURSIVE joinWords(_)
joinWords(ws) ==
    IF ws = <<>> THEN <<>>
    ELSE IF Len(ws) = 1 THEN ws[1]
    ELSE ws[1] \o <<" ">> \o joinWords(Tail(ws))

\* a message that mentions the agent
Mention(ws) == AtToss \o <<" ">> \o joinWords(ws)

\* the toss ids players write: before its file is created, an id is the id
\* of no toss
IdTexts == { toString(i) : i \in TossIds }

JoinContents ==
    { Mention(<<W_join, id>>) : id \in IdTexts }
        \cup { Mention(<<W_join, id, o>>) : id \in IdTexts, o \in OptionArgs }

CloseContents ==
    { Mention(<<W_close, id>>) : id \in IdTexts }
        \cup { Mention(<<W_close, id, o>>) : id \in IdTexts, o \in WinningArgs }

\* a natural-language prompt
S_toss_prompt == Mention(<<O_yes, <<"o", "r">>, O_no, <<"f", "o", "r">>, A_5>>)

CommandContents == JoinContents \cup CloseContents \cup {S_toss_help, S_toss_prompt}

\* what handleMessage hands on for each of these contents
Commands == [content \in CommandContents |-> handleMessage(content)]

\* handleMessage takes the command of a mention and notes who sent it
Handled(inboxId, content) ==
    /\ cur' = [sender |-> inboxId, typeId |-> "text", conv |-> "grp1", content |-> content]
    /\ cmd' = Commands[content]
    /\ received' = received + 1
    /\ UNCHANGED <<example, intervalVars, envVars, scriptVars, secretVars, pc, exitCode, sub, invoked, threw,
                   logged, asyncPending, retries, queueVars, retryVars>>

\* a command that is rejected: it answers and changes nothing
Rejected(response) ==
    /\ replies' = <<response>>
    /\ payout' = NoPrize
    /\ created' = NoToss
    /\ UNCHANGED <<store, closing, paid>>

\* handleNaturalLanguageCommand: a prompt creates a toss; when the agent's
\* answer holds no JSON (its apology for a failed completion is such an
\* answer), parseNaturalLanguageToss reads parsedJson.valid of null
CreateCommand ==
    /\ example = "cointoss"
    /\ received < MaxCommands
    /\ closing = NoClose
    /\ \E inboxId \in Creators, content \in CommandContents :
          /\ Commands[content] = NoCommand
          /\ Handled(inboxId, content)
          /\ \E balanceOk \in BOOLEAN, parsed \in {"toss", "invalid", "no JSON"} :
                IF ~balanceOk THEN Rejected("Insufficient USDC balance")
                ELSE IF parsed = "invalid" THEN Rejected("Invalid toss request")
                ELSE IF parsed = "no JSON"
                     THEN Rejected("Cannot read properties of null (reading 'valid')")
                ELSE \E amount \in Amounts, dirRead \in BOOLEAN,
                        written1 \in BOOLEAN, reread \in BOOLEAN :
                        LET game == createGame(store, inboxId, amount, dirRead, written1)
                            toss == [game.toss EXCEPT !.tossOptions = ParsedOptions]
                        IN  /\ game.id \in TossIds
                            /\ IF ~reread
                               THEN /\ store' = game.st
                                    /\ created' = NoToss
                                    /\ replies' = <<"read error">>
                               ELSE /\ \E written2 \in BOOLEAN :
                                          store' = saveToss(game.st, toss, written2)
                                    /\ created' = toss
                                    /\ replies' = <<"Toss Created">>
                            /\ payout' = NoPrize
                            /\ UNCHANGED <<closing, paid>>

\* handleExplicitCommand, case "join"
JoinCommand ==
    /\ example = "cointoss"
    /\ received < MaxCommands
    /\ closing = NoClose
    /\ \E inboxId \in Players, content \in CommandContents :
          /\ toLowerCase(Commands[content].command) = W_join
          /\ Handled(inboxId, content)
          /\ LET args == Commands[content].args
                 tossId == At(args, 1)
                 chosenOption == IF Len(args) >= 2 THEN args[2] ELSE Null
                 toss == getToss(store, tossFile(tossId))
                 added == addPlayerToGame(toss, inboxId, chosenOption, TRUE)
             IN  IF Len(args) < 1 \/ Falsy(tossId)
                 THEN Rejected("Please specify a toss ID")
                 ELSE IF toss = NoToss THEN Rejected("Toss not found")
                 ELSE IF joinGame(toss, inboxId) # "ok"
                      THEN Rejected(joinGame(toss, inboxId))
                 ELSE IF chosenOption = Null \/ Falsy(chosenOption)
                      THEN Rejected("Please specify your option")
                 ELSE IF /\ toss.tossOptions # Undefined
                         /\ ~includesOption(toss.tossOptions, chosenOption)
                      THEN Rejected("Invalid option")
                 ELSE \E balanceOk \in BOOLEAN, paymentSuccess \in BOOLEAN :
                         IF ~balanceOk THEN Rejected("Insufficient USDC balance")
                         ELSE IF ~paymentSuccess THEN Rejected("Payment failed")
                         ELSE /\ paid' = paid \cup {<<inboxId, toss.id>>}
                              /\ IF added.err # "ok"
                                 THEN /\ store' = store
                                      /\ replies' = <<added.err>>
                                 ELSE /\ \E written \in BOOLEAN :
                                            store' = saveToss(store, added.toss, written)
                                      /\ replies' = <<"Successfully joined toss">>
                              /\ payout' = NoPrize
                              /\ created' = NoToss
                              /\ UNCHANGED closing

\* every user passes for the creator
IsCreatorAnyone(inboxId, toss) == TRUE

\* the check of the close command: inboxId !== toss.creator is refused
IsCreator(inboxId, toss) == inboxId = toss.creator

\* handleExplicitCommand, case "close", up to the IN_PROGRESS write of
\* executeCoinToss
CloseStart ==
    /\ example = "cointoss"
    /\ received < MaxCommands
    /\ closing = NoClose
    /\ \E inboxId \in Players, content \in CommandContents :
          /\ toLowerCase(Commands[content].command) = W_close
          /\ Handled(inboxId, content)
          /\ LET args == Commands[content].args
                 tossId == At(args, 1)
                 winningOption == At(args, 2)
                 toss == getToss(store, tossFile(tossId))
                 inProgress == [toss EXCEPT !.status = "IN_PROGRESS"]
             IN  IF Falsy(tossId) THEN Rejected("Please specify a toss ID")
                 ELSE IF Falsy(winningOption)
                      THEN Rejected("Please specify the winning option")
                 ELSE IF toss = NoToss THEN Rejected("Toss not found")
                 ELSE IF ~IsCreator(inboxId, toss)
                      THEN Rejected("Only the toss creator can close the toss.")
                 ELSE IF tooFewPlayers(toss)
                      THEN Rejected("At least 2 players are needed to close the toss.")
                 ELSE \E balanceOk \in BOOLEAN :
                         IF ~balanceOk THEN Rejected("Insufficient TOSS balance")
                         ELSE IF /\ toss.tossOptions # Undefined
                                 /\ ~includesOption(toss.tossOptions, winningOption)
                              THEN Rejected("Invalid option")
                         ELSE IF executeChecks(toss) # "ok"
                              THEN Rejected("Error closing toss")
                         ELSE \E written \in BOOLEAN :
                                 /\ store' = saveToss(store, inProgress, written)
                                 /\ closing' = [toss |-> inProgress,
                                                winningOption |-> winningOption]
                                 /\ replies' = <<>>
                                 /\ payout' = NoPrize
                                 /\ created' = NoToss
                                 /\ UNCHANGED paid

\* one transfer that went through is enough
paymentSuccessAny(successfulTransfers, winners) == Cardinality(successfulTransfers) > 0

\* toss.paymentSuccess: successfulTransfers.length === winners.length
paymentSuccess(successfulTransfers, winners) ==
    Cardinality(successfulTransfers) = Len(winners)

\* the rest of executeCoinToss and of the close command
CloseFinish ==
    /\ example = "cointoss"
    /\ closing # NoClose
    /\ closing' = NoClose
    /\ LET toss == closing.toss
           matching == matchingOption(tossChoices(toss), closing.winningOption)
           winners == winnersOf(toss.participantOptions, matching)
           cancelled == [toss EXCEPT !.status = "CANCELLED"]
           prize == prizePerWinner(toss, winners)
       IN  IF matching = Undefined \/ winners = <<>>
           THEN /\ \E written \in BOOLEAN : store' = saveToss(store, cancelled, written)
                /\ payout' = NoPrize
                /\ replies' = <<"Error closing toss">>
                /\ UNCHANGED paid
           ELSE \E tossWallet \in {"found", "null", "throws"} :
                   IF tossWallet = "null"
                   THEN /\ \E written \in BOOLEAN :
                              store' = saveToss(store, cancelled, written)
                        /\ payout' = NoPrize
                        /\ replies' = <<"Error closing toss">>
                        /\ UNCHANGED paid
                   ELSE IF tossWallet = "throws"
                   THEN /\ payout' = NoPrize
                        /\ replies' = <<"Error closing toss">>
                        /\ UNCHANGED <<store, paid>>
                   ELSE \E successfulTransfers \in
                              SUBSET { w.inboxId : w \in Range(winners) },
                           written \in BOOLEAN :
                           LET completed ==
                                   [toss EXCEPT
                                       !.status = "COMPLETED",
                                       !.tossResult = matching,
                                       !.winner = [i \in 1..Len(winners) |->
                                                       winners[i].inboxId],
                                       !.paymentSuccess =
                                           paymentSuccess(successfulTransfers,
                                                          winners)]
                           IN  /\ payout' =
                                     [id |-> toss.id, tossAmount |-> toss.tossAmount,
                                      participants |-> toss.participants,
                                      winningOption |-> matching,
                                      winners |-> winners,
                                      prizePerWinner |-> prize,
                                      transfers |-> { [to |-> w, amount |-> prize] :
                                                        w \in successfulTransfers },
                                      paymentSuccess |-> completed.paymentSuccess]
                               /\ store' = saveToss(store, completed, written)
                               /\ replies' = <<"TOSS RESULTS">>
                               /\ UNCHANGED paid
    /\ UNCHANGED <<example, intervalVars, envVars, scriptVars, secretVars, pc, exitCode, sub, received, cur, invoked, threw,
                   logged, asyncPending, retries, queueVars, retryVars, cmd, created>>

\* handleExplicitCommand, case "help"
HelpCommand ==
    /\ example = "cointoss"
    /\ received < MaxCommands
    /\ closing = NoClose
    /\ \E inboxId \in Players, content \in CommandContents :
          /\ toLowerCase(Commands[content].command) = W_help
          /\ Handled(inboxId, content)
          /\ Rejected("HELP_MESSAGE")

\* TossManager.cancelGame, which no command calls
CancelGame ==
    /\ example = "cointoss"
    /\ received < MaxCommands
    /\ closing = NoClose
    /\ \E tossId \in TossIds, written \in BOOLEAN :
          LET toss == getToss(store, tossId)
          IN  /\ toss # NoToss
              /\ toss.status # "COMPLETED"
              /\ store' = saveToss(store, [toss EXCEPT !.status = "CANCELLED"], written)
    /\ cur' = NullMsg
    /\ cmd' = NoCommand
    /\ replies' = <<>>
    /\ payout' = NoPrize
    /\ created' = NoToss
    /\ UNCHANGED <<closing, paid>>
    /\ received' = received + 1
    /\ UNCHANGED <<example, intervalVars, envVars, scriptVars, secretVars, pc, exitCode, sub, invoked, threw,
                   logged, asyncPending, retries, queueVars, retryVars>>

----------------------------------------------------------------------------
(* Properties *)

\* every queued message there is, wherever it is now
AllQueued == Range(messageQueue) \cup Range(inflight) \cup Range(sentLog) \cup discarded

\* the sender inbox id of the message is the agent's own
SenderIsAgent(m) == m # NullMsg /\ m.sender = ClientInboxId

C2_NonTextNotHandled ==
    (cur # NullMsg /\ cur.typeId # "text") => ~invoked

\* C3: after a stream failure the helper re-subscribes once RETRY_INTERVAL has
\* passed, at most MAX_RETRIES times, and the failure after the last retry
\* ends the process with exit code 1.
C3_ResubscribeThenExit ==
    /\ resubs <= MAX_RETRIES
    /\ (resubs > 0 => lastWait = RETRY_INTERVAL)
    /\ (timer >= 0 => waited + timer = RETRY_INTERVAL)
    /\ ((sub = "failed" /\ pc = "running") => timer >= 0)
    /\ fails <= MAX_RETRIES + 1
    /\ (fails = MAX_RETRIES + 1 => (pc = "exited" /\ exitCode = 1))

\* the stream has failed MAX_RETRIES + 1 times: five re-subscriptions, then the exit
C3_Witness ==
    /\ pc = "exited"
    /\ fails = MAX_RETRIES + 1
    /\ resubs = MAX_RETRIES

\* the status changes of the chain CREATED -> WAITING_FOR_PLAYER -> IN_PROGRESS
\* -> COMPLETED, a new toss file included
ChainSteps ==
    { <<"none", "CREATED">>, <<"CREATED", "WAITING_FOR_PLAYER">>,
      <<"WAITING_FOR_PLAYER", "IN_PROGRESS">>, <<"IN_PROGRESS", "COMPLETED">> }

\* the players of the toss are at least two and each of them paid to join it
TwoPaidJoins(toss) ==
    /\ Len(toss.participants) >= 2
    /\ \A i \in 1..Len(toss.participants) : <<toss.participants[i], toss.id>> \in paid

\* C4: the stored status of a toss changes only one state at a time along
\* CREATED -> WAITING_FOR_PLAYER -> IN_PROGRESS -> COMPLETED (or to
\* CANCELLED), and a toss is IN_PROGRESS or COMPLETED only after two joins
\* with payment.
C4_StatusFollowsSequence ==
    [][\A id \in TossIds :
          /\ \/ store'[id].status = store[id].status
             \/ <<store[id].status, store'[id].status>> \in ChainSteps
             \/ store'[id].status = "CANCELLED"
          /\ store'[id].status \in {"IN_PROGRESS", "COMPLETED"} => TwoPaidJoins(store'[id])]_vars

\* the participants of the pay-out who chose its winning option
ChoseWinning(po) ==
    { p \in Range(po.participants) :
        \E w \in Range(po.winners) :
            /\ w.inboxId = p
            /\ toLowerCase(w.option) = toLowerCase(po.winningOption) }

\* C5: when a toss is paid out, the winners are the participants who chose
\* the winning option, and the prize of each of them, which is the amount of
\* every transfer, is tossAmount times the number of participants divided by
\* the number of winners.
C5_PrizeIsEqualShare ==
    payout # NoPrize =>
        LET amount == parseFloat(payout.tossAmount)
            prize == payout.prizePerWinner
            n == Len(payout.participants)
            w == Len(payout.winners)
        IN  /\ w > 0
            /\ { x.inboxId : x \in Range(payout.winners) } = ChoseWinning(payout)
            /\ prize.den > 0
            /\ prize.num * w * amount.den = amount.num * n * prize.den
            /\ \A t \in payout.transfers : t.amount = prize

\* two participants who both chose the winning option, amount "5": a pot of
\* 10 and 5 for each
C5_Witness ==
    /\ payout.tossAmount = A_5
    /\ Len(payout.participants) = 2
    /\ Len(payout.winners) = 2
    /\ payout.prizePerWinner = [num |-> 5, den |-> 1]
    /\ Cardinality(payout.transfers) = 2

\* C6: when handling an inbound message throws, the error is logged and the
\* loop goes on.
C6_BadMessageLoopContinues ==
    (threw /\ sub = "open") => (logged /\ pc = "running")

\* C7: after a message was skipped or handled the loop goes on to the next
\* event while the subscription is alive.
C7_LoopGoesOn ==
    (received > 0 /\ sub = "open" /\ ~threw) => pc = "running"

\* C8: no inbound message has more than one reply queued or sent.
C8_AtMostOneReply ==
    \A h \in history :
        Cardinality({ x \in AllQueued : x.content.to = h.id }) <= 1

\* C9: the replies of the FIFO queue are sent in the order in which they
\* were queued.
C9_SentInQueueOrder ==
    example = "fifo" =>
        \A i, j \in 1..Len(sentLog) :
            i < j => sentLog[i].content.id < sentLog[j].content.id

\* how often the reply number k occurs in the sequence q
Occurrences(q, k) == Cardinality({ i \in 1..Len(q) : q[i].content.id = k })

\* how often the reply number k is waiting in the queue, held by a run of
\* processMessageQueue, or sent
Places(k) ==
    Occurrences(messageQueue, k) + Occurrences(inflight, k) + Occurrences(sentLog, k)

DualExamples == {"dual", "queueDual", "part015"}

\* C10: in the dual-client examples every queued reply is, at any time, in
\* exactly one place: waiting in the queue, held by one processMessageQueue
\* run, or sent once.  It is never lost and never sent twice.
C10_EachReplyOnce ==
    example \in DualExamples =>
        \A k \in 1..(nextReply - 1) : Places(k) = 1

\* C11: at most one network call started by the process is in flight at any
\* time: no second handleMessageAsync and no second processMessageQueue run
\* is under way before the first has finished.
C11_OneCallInFlight ==
    Cardinality(asyncPending) + Len(inflight) <= 1

\* C12: a receiver that re-subscribes after a failure does so at most
\* MAX_RETRIES times, and every re-subscription comes after the same fixed
\* wait.
C12_FixedCountFixedDelay ==
    example \in RestartExamples =>
        /\ resubs <= MAX_RETRIES
        /\ resubs > 0 => (lastWait > 0 /\ lastWait = restartDelay)

\* C13: an outbound send that failed is not attempted again: a reply that a
\* processMessageQueue run took out of the queue never goes back into it.
C13_FailedSendNotRetried ==
    [][\A k \in 1..(nextReply - 1) :
          Occurrences(inflight', k) < Occurrences(inflight, k)
              => Occurrences(messageQueue', k) <= Occurrences(messageQueue, k)]_vars

\* C14: when the stream of an agent started with XmtpHelper.createAndStart
\* or xmtpAgent.createAndStart has failed and retries are left, the agent is
\* alive and a retry of the stream is scheduled.
C14_FailedStreamRetried ==
    (example \in {"helper", "skills"} /\ sub = "failed" /\ retries > 0)
        => (pc = "running" /\ timer >= 0)

\* C15: a toss created with amount "5" and options ["yes", "no"] can be
\* retrieved by its id, and the toss retrieved has the same tossAmount and
\* tossOptions.
C15_CreatedTossRetrievable ==
    (created # NoToss /\ created.tossAmount = A_5 /\ created.tossOptions = ParsedOptions)
        => LET toss == getToss(store, created.id)
           IN  /\ toss # NoToss
               /\ toss.tossAmount = created.tossAmount
               /\ toss.tossOptions = created.tossOptions

\* C16: the message "@toss join 5 yes" yields the command "join" with the
\* arguments ["5", "yes"].
C16_JoinCommandParsed ==
    (example = "tossListener" /\ invoked /\ cur.content = S_toss_join)
        => cmd = [command |-> W_join, args |-> << <<"5">>, O_yes >>]

\* the listener handed "@toss join 5 yes" to the command handling
C16_Witness ==
    /\ example = "tossListener"
    /\ invoked
    /\ cur.content = S_toss_join
    /\ cmd.command = W_join
    /\ Len(cmd.args) = 2

\* the content begins with "@toss", in any letter case
Prefixed(content) == startsWith(toLowerCase(content), AtToss)

\* "@toss", in any letter case, stands somewhere in the content and a blank,
\* tab or line break follows it
Mentioned(content) ==
    \E i \in 1..Len(content) :
        /\ i + 5 <= Len(content)
        /\ \A k \in 1..5 : LowerChar(content[i + k - 1]) = AtToss[k]
        /\ content[i + 5] \in {" ", "\n", "\t"}

\* C17 as stated: a message that is not prefixed with "@toss" yields no
\* extracted command, and the command handler is not invoked for it.
C17_UnprefixedNotHandled ==
    (example = "tossListener" /\ cur # NullMsg /\ ~Prefixed(cur.content))
        => (extractCommand(cur.content) = Null /\ ~invoked)

\* C17: a message that does not mention "@toss" (in any letter case, followed
\* by white space) anywhere in its text yields no extracted command, and the
\* command handler is not invoked for it.
C17_NoMentionNotHandled ==
    (example = "tossListener" /\ cur # NullMsg /\ ~Mentioned(cur.content))
        => (extractCommand(cur.content) = Null /\ ~invoked /\ cmd = NoCommand)

\* a text message of another sender, in a conversation the client finds, that
\* mentions nobody was delivered and skipped
C17_Witness ==
    /\ example = "tossListener"
    /\ cur # NullMsg
    /\ cur.content \in {S_hi, S_tossed}
    /\ cur.typeId = "text"
    /\ ~IsSelf(cur)
    /\ cur.conv \in KnownConvs
    /\ ~invoked

C19_OnlyCreatorCloses ==
    [][(/\ received' = received + 1
        /\ toLowerCase(cmd'.command) = W_close
        /\ Len(cmd'.args) >= 1
        /\ getToss(store, tossFile(cmd'.args[1])) # NoToss
        /\ cur'.sender # getToss(store, tossFile(cmd'.args[1])).creator)
          => LET id == tossFile(cmd'.args[1])
             IN  /\ getToss(store', id).status = getToss(store, id).status
                 /\ getToss(store', id).tossResult = getToss(store, id).tossResult
                 /\ getToss(store', id).winner = getToss(store, id).winner
                 /\ closing' = NoClose
                 /\ payout'.transfers = {}]_vars

\* a user who did not create the toss asked to close it, with one of its
\* options, when it had two players and was waiting to be closed
C19_Witness ==
    /\ example = "cointoss"
    /\ toLowerCase(cmd.command) = W_close
    /\ Len(cmd.args) = 2
    /\ replies = <<"Only the toss creator can close the toss.">>
    /\ LET toss == getToss(store, tossFile(cmd.args[1]))
       IN  /\ toss # NoToss
           /\ toss.creator # cur.sender
           /\ toss.status = "WAITING_FOR_PLAYER"
           /\ Len(toss.participants) >= 2
           /\ toss.tossOptions # Undefined
           /\ includesOption(toss.tossOptions, cmd.args[2])

\* the winners of the pay-out that a transfer went to
PaidWinners(po) == { w \in Range(po.winners) : \E t \in po.transfers : t.to = w.inboxId }

CallingExamples == {"gpt", "gaia", "langchain", "tossListener"}

\* C21: whenever an outbound network call made while handling a message
\* fails, a generic apology is sent back to the user in the conversation the
\* message came from.
C21_FailedCallApology ==
    (example \in CallingExamples /\ invoked /\ threw /\ cur.conv \in KnownConvs)
        => replies = <<"apology">>

\* C22: every validation error of an in-chat command (a missing or invalid
\* argument, an unknown group, a failed eligibility check) is surfaced to the
\* sender as a plain-text chat reply: an /add command that is handled without
\* adding the user is answered.
C22_ValidationErrorReplied ==
    (example = "nft" /\ invoked /\ ~threw /\ startsWith(cur.content, S_add)
        /\ replies # <<"userAdded">>)
        => replies # <<>>

\* the stream examples that run a top-level main
MainExamples == StreamExamples \ {"helper", "skills"}

\* C24: in every example, an error that escapes the top-level main is
\* caught, logged, and the process exits with a non-zero code: once main has
\* rejected, the process has an exit code above zero.
C24_EscapedErrorExitsNonZero ==
    (example \in MainExamples /\ pc \in {"rejected", "exited"}) => exitCode > 0

StillMissing == \E v \in Required : Falsy(processEnv[v])

Revoked == Range(currentInstallations) \ Range(installations)

\* C25: after the revoke-installations script has run, the inbox has at most
\* 5 installations including the new one: with n >= 5 installations before
\* the run the n - 5 + 1 oldest are revoked, leaving 4 before the client is
\* created, and with n < 5 nothing is revoked.
C25_AtMostFiveInstallations ==
    LET n == Len(currentInstallations)
    IN  /\ (example = "revoke" /\ pc = "done") =>
              /\ Len(installations) <= MAX_INSTALLATIONS
              /\ MaxInstallations + 1 \in Range(installations)
        /\ (example = "revoke" /\ pc \in {"create", "done"} /\ n >= MAX_INSTALLATIONS) =>
              /\ Cardinality(Revoked) = n - MAX_INSTALLATIONS + 1
              /\ \A r \in Revoked : \A k \in Range(currentInstallations) \ Revoked : r < k
              /\ pc = "create" => Len(installations) = MAX_INSTALLATIONS - 1
        /\ (example = "revoke" /\ pc \in {"create", "done"} /\ n < MAX_INSTALLATIONS) =>
              Revoked = {}

\* C25 witness: the script has finished on an inbox that had more
\* installations than the limit.
C25_Witness ==
    /\ example = "revoke"
    /\ pc = "done"
    /\ Len(currentInstallations) > MAX_INSTALLATIONS
    /\ Len(installations) = MAX_INSTALLATIONS

\* the texts that match the passphrase
SecretTexts == {S_go, S_GO}

C27_KeysAppended ==
    [][(example \in KeyScripts /\ envFile # NoFile) => startsWith(envFile', envFile)]_vars

\* C28: each run of processMessageQueue in the priority-queue examples
\* removes the queued message with the highest priority, and among messages
\* of equal priority the one with the oldest timestamp.
C28_HighestPriorityFirst ==
    [][(example \in SortingExamples /\ Len(inflight') > Len(inflight)) =>
          LET taken == inflight'[Len(inflight')]
          IN  /\ Range(messageQueue) = Range(messageQueue') \cup {taken}
              /\ Len(messageQueue') = Len(messageQueue) - 1
              /\ \A i \in 1..Len(messageQueue') :
                    /\ messageQueue'[i].priority <= taken.priority
                    /\ messageQueue'[i].priority = taken.priority
                          => taken.timestamp <= messageQueue'[i].timestamp]_vars

\* C28 witness: a reply to a missed message is taken from the queue while an
\* ordinary reply that was queued before it waits.
C28_Witness ==
    /\ example = "dual"
    /\ sentLog = <<>>
    /\ \E i \in 1..Len(inflight), j \in 1..Len(messageQueue) :
          /\ inflight[i].priority = 2
          /\ messageQueue[j].priority = 1
          /\ messageQueue[j].content.id < inflight[i].content.id

\* C29: when the conversation of a dequeued message cannot be found, the
\* message is discarded: it is not put back on the queue and is never sent.
C29_NotFoundDiscarded ==
    [][(example \in QueueExamples /\ notFound') =>
          /\ messageQueue' = messageQueue
          /\ sentLog' = sentLog
          /\ \E i \in 1..Len(inflight) : inflight[i] \in discarded']_vars

\* the re-subscriptions retry() has scheduled since retries was MAX_RETRIES
Scheduled == MAX_RETRIES - retries

\* C30: in the retry helper the retries counter always stays within
\* 0..MAX_RETRIES, and over a run of stream failures with no reset exactly
\* MAX_RETRIES re-subscriptions are scheduled before the next failure calls
\* process.exit(1).
C30_RetriesInRange ==
    /\ retries \in 0..MAX_RETRIES
    /\ example \in RetryExamples =>
          /\ fails \in {Scheduled, Scheduled + 1}
          /\ pc = "running" => fails = Scheduled
          /\ fails = Scheduled + 1 =>
                (pc = "exited" /\ exitCode = 1 /\ Scheduled = MAX_RETRIES)

\* C30 witness: the counter has reached 0 and the failure after that has
\* ended the process.
C30_Witness ==
    /\ example \in RetryExamples
    /\ retries = 0
    /\ fails = Scheduled + 1
    /\ pc = "exited"

\* the reply number k waits in the queue
Waiting(k) == Occurrences(messageQueue, k) > 0

\* the reply number k has been sent or discarded
Settled(k) ==
    \/ Occurrences(sentLog, k) > 0
    \/ \E x \in discarded : x.content.id = k

\* C31: while the drain timer keeps firing and no send fails for ever, every
\* reply on the outbound queue is eventually sent or discarded, and a reply
\* whose run ended in the catch block is back on the queue exactly once and
\* held by no run.
C31_EventuallySentOrDiscarded ==
    /\ \A k \in 1..MaxReplies : Waiting(k) ~> Settled(k)
    /\ [][\A k \in 1..MaxReplies :
            (/\ example \in QueueExamples
             /\ Occurrences(inflight, k) > Occurrences(inflight', k)
             /\ ~Settled(k)') =>
               (/\ Occurrences(messageQueue', k) = 1
                /\ Occurrences(inflight', k) = 0)]_vars

\* C31 witness: one reply has been sent, and the other one is back on the
\* queue, once, after its run found no conversation and threw.
C31_Witness ==
    /\ example = "queueDual"
    /\ notFound
    /\ Len(sentLog) = 1
    /\ Len(messageQueue) = 1
    /\ inflight = <<>>

\* C32: once the close command has finished, no stored toss has the status
\* IN_PROGRESS: every executeCoinToss that set it ended with COMPLETED or
\* CANCELLED stored.
C32_NoTossLeftInProgress ==
    (example = "cointoss" /\ closing = NoClose) =>
        \A id \in TossIds : getToss(store, id).status # "IN_PROGRESS"

\* the stored toss is COMPLETED or CANCELLED
Terminal(toss) == toss.status \in {"COMPLETED", "CANCELLED"}

\* C33: COMPLETED and CANCELLED are terminal: a join or close command leaves
\* the file of a toss with either status as it is (status, participants,
\* result and winner), and makes no join payment and no prize transfer for it.
C33_TerminalStatusKept ==
    [][\A id \in TossIds :
          (/\ example = "cointoss"
           /\ Terminal(getToss(store, id))
           /\ toLowerCase(cmd'.command) \in {W_join, W_close})
             => /\ store'[id] = store[id]
                /\ { x \in paid' \ paid : x[2] = id } = {}
                /\ payout'.id # id
                /\ closing'.toss.id # id]_vars

\* C33 witness: the creator asked to close a toss that is already COMPLETED,
\* with one of its options, and executeCoinToss refused.
C33_Witness ==
    /\ example = "cointoss"
    /\ toLowerCase(cmd.command) = W_close
    /\ Len(cmd.args) = 2
    /\ replies = <<"Error closing toss">>
    /\ closing = NoClose
    /\ LET toss == getToss(store, tossFile(cmd.args[1]))
       IN  /\ toss.status = "COMPLETED"
           /\ toss.winner # <<>>
           /\ cur.sender = toss.creator
           /\ includesOption(toss.tossOptions, cmd.args[2])

\* C34: a player is among the participants of a stored toss only if their
\* join payment to the toss wallet went through, and every join payment that
\* went through has put the player among the participants of the stored toss.
C34_PaidIffRecorded ==
    example = "cointoss" =>
        \A id \in TossIds, p \in Players :
            (p \in Range(getToss(store, id).participants)) <=> (<<p, id>> \in paid)

\* C35: in every stored toss no inbox id is twice among the participants, and
\* participantOptions is as long as participants and names the same inbox id
\* at every position.
C35_ParticipantsOnceWithOption ==
    example = "cointoss" =>
        \A id \in TossIds :
            LET toss == getToss(store, id) IN
            /\ \A i, j \in 1..Len(toss.participants) :
                  toss.participants[i] = toss.participants[j] => i = j
            /\ Len(toss.participantOptions) = Len(toss.participants)
            /\ \A i \in 1..Len(toss.participants) :
                  toss.participantOptions[i].inboxId = toss.participants[i]

\* C35 witness: two users have joined a toss, and the second of them has just
\* been told so.
C35_Witness ==
    /\ example = "cointoss"
    /\ toLowerCase(cmd.command) = W_join
    /\ replies = <<"Successfully joined toss">>
    /\ \E id \in TossIds :
          LET toss == getToss(store, id) IN
          /\ Len(toss.participants) = 2
          /\ toss.participants[2] = cur.sender

\* C36: a toss leaves WAITING_FOR_PLAYER for IN_PROGRESS, and executeCoinToss
\* goes on with it, only when it has at least 2 participants; a close command
\* for a toss with fewer than 2 participants is answered with a refusal and
\* leaves the toss files as they are, with no execution begun and no prize
\* paid.
C36_ExecutedWithTwoPlayers ==
    [][/\ \A id \in TossIds :
            (/\ example = "cointoss"
             /\ getToss(store, id).status = "WAITING_FOR_PLAYER"
             /\ getToss(store', id).status = "IN_PROGRESS")
               => /\ Len(getToss(store, id).participants) >= 2
                  /\ Len(getToss(store', id).participants) >= 2
       /\ (example = "cointoss" /\ closing' # NoClose)
             => Len(closing'.toss.participants) >= 2
       /\ (/\ example = "cointoss"
           /\ received' = received + 1
           /\ toLowerCase(cmd'.command) = W_close
           /\ Len(cmd'.args) >= 1
           /\ getToss(store, tossFile(cmd'.args[1])) # NoToss
           /\ Len(getToss(store, tossFile(cmd'.args[1])).participants) < 2)
             => /\ store' = store
                /\ closing' = NoClose
                /\ payout' = NoPrize
                /\ Len(replies') = 1
                /\ replies'[1] # "TOSS RESULTS"]_vars

\* C36 witness: the creator asked to close a toss that one user has joined,
\* with one of its options, and was told that two players are needed.
C36_Witness ==
    /\ example = "cointoss"
    /\ toLowerCase(cmd.command) = W_close
    /\ Len(cmd.args) = 2
    /\ replies = <<"At least 2 players are needed to close the toss.">>
    /\ LET toss == getToss(store, tossFile(cmd.args[1]))
       IN  /\ toss.status = "WAITING_FOR_PLAYER"
           /\ Len(toss.participants) = 1
           /\ cur.sender = toss.creator
           /\ toss.tossOptions # Undefined
           /\ includesOption(toss.tossOptions, cmd.args[2])

\* C37: a prompt that creates a toss gives it an id that no stored toss has,
\* so the file of every toss that was stored before is left as it was.
C37_CreateKeepsStoredTosses ==
    [][(/\ example = "cointoss"
        /\ received' = received + 1
        /\ cmd' = NoCommand
        /\ cur' # NullMsg)
          => \A id \in TossIds :
                store[id] # NoToss =>
                    /\ store'[id] = store[id]
                    /\ created'.id # id]_vars

\* C38: however often the receiver is restarted after stream errors, at most
\* one periodic sync timer and at most one missed-message timer of the
\* receiver is active.
C38_OneTimerOfEachKind ==
    example \in RestartingReceivers =>
        /\ syncIntervals <= 1
        /\ missedIntervals <= 1

----------------------------------------------------------------------------

InitQueueVars ==
    /\ messageQueue = <<>>
    /\ inflight = <<>>
    /\ sentLog = <<>>
    /\ discarded = {}
    /\ history = {}
    /\ now = 0
    /\ nextReply = 1
    /\ notFound = FALSE

InitLoop ==
    /\ pc = "running"
    /\ exitCode = -1
    /\ sub = "open"
    /\ received = 0
    /\ cur = NullMsg
    /\ invoked = FALSE
    /\ replies = <<>>
    /\ threw = FALSE
    /\ logged = FALSE
    /\ asyncPending = {}
    /\ retries = MAX_RETRIES
    /\ processEnv = [v \in EnvNames |-> EnvValue]
    /\ rootEnv = NoFile
    /\ installations = <<>>
    /\ currentInstallations = <<>>
    /\ envFile = NoFile
    /\ usersInGroup = {}
    /\ groupMembers = {}
    /\ syncIntervals = startedIntervals("sync")
    /\ missedIntervals = startedIntervals("missed")

InitRetryVars ==
    /\ timer = -1
    /\ waited = 0
    /\ resubs = 0
    /\ fails = 0
    /\ lastWait = 0

InitTossVars ==
    /\ store = [i \in TossIds |-> NoToss]
    /\ closing = NoClose
    /\ paid = {}
    /\ payout = NoPrize
    /\ cmd = NoCommand
    /\ created = NoToss

\* the process is started with any environment and any root .env file
InitStartup ==
    /\ example \in StartExamples
    /\ pc = "loading"
    /\ exitCode = -1
    /\ sub = "none"
    /\ received = 0
    /\ cur = NullMsg
    /\ invoked = FALSE
    /\ replies = <<>>
    /\ threw = FALSE
    /\ logged = FALSE
    /\ asyncPending = {}
    /\ retries = MAX_RETRIES
    /\ processEnv \in [EnvNames -> EnvValues]
    /\ rootEnv \in EnvFiles \cup {NoFile}
    /\ installations = <<>>
    /\ currentInstallations = <<>>
    /\ envFile = NoFile
    /\ usersInGroup = {}
    /\ groupMembers = {}
    /\ syncIntervals = startedIntervals("sync")
    /\ missedIntervals = startedIntervals("missed")
    /\ InitQueueVars
    /\ InitRetryVars
    /\ InitTossVars

\* the revoke script is started on an inbox with any installations
InitRevoke ==
    /\ example = "revoke"
    /\ pc = "start"
    /\ exitCode = -1
    /\ sub = "none"
    /\ received = 0
    /\ cur = NullMsg
    /\ invoked = FALSE
    /\ replies = <<>>
    /\ threw = FALSE
    /\ logged = FALSE
    /\ asyncPending = {}
    /\ retries = MAX_RETRIES
    /\ processEnv = [v \in EnvNames |-> EnvValue]
    /\ rootEnv = NoFile
    /\ installations \in InboxStates
    /\ currentInstallations = <<>>
    /\ envFile = NoFile
    /\ usersInGroup = {}
    /\ groupMembers = {}
    /\ syncIntervals = startedIntervals("sync")
    /\ missedIntervals = startedIntervals("missed")
    /\ InitQueueVars
    /\ InitRetryVars
    /\ InitTossVars

\* a gen:keys script is started with any .env file or none
InitKeys ==
    /\ example \in KeyScripts
    /\ pc = "start"
    /\ exitCode = -1
    /\ sub = "none"
    /\ received = 0
    /\ cur = NullMsg
    /\ invoked = FALSE
    /\ replies = <<>>
    /\ threw = FALSE
    /\ logged = FALSE
    /\ asyncPending = {}
    /\ retries = MAX_RETRIES
    /\ processEnv = [v \in EnvNames |-> EnvValue]
    /\ rootEnv = NoFile
    /\ installations = <<>>
    /\ currentInstallations = <<>>
    /\ envFile \in EnvFiles \cup {NoFile}
    /\ usersInGroup = {}
    /\ groupMembers = {}
    /\ syncIntervals = startedIntervals("sync")
    /\ missedIntervals = startedIntervals("missed")
    /\ InitQueueVars
    /\ InitRetryVars
    /\ InitTossVars

InitSecret ==
    /\ example = "secret"
    /\ InitLoop
    /\ InitQueueVars
    /\ InitRetryVars
    /\ InitTossVars

InitStream ==
    /\ example \in StreamExamples
    /\ InitLoop
    /\ InitQueueVars
    /\ InitRetryVars
    /\ InitTossVars

InitRetry ==
    /\ example \in RetryExamples
    /\ InitLoop
    /\ InitQueueVars
    /\ InitRetryVars
    /\ InitTossVars

InitAgents ==
    /\ example \in StreamExamples \cup QueueExamples
    /\ InitLoop
    /\ InitQueueVars
    /\ InitRetryVars
    /\ InitTossVars

InitQueue ==
    /\ example \in QueueExamples
    /\ InitLoop
    /\ InitQueueVars
    /\ InitRetryVars
    /\ InitTossVars

InitPriority ==
    /\ example \in SortingExamples
    /\ InitLoop
    /\ InitQueueVars
    /\ InitRetryVars
    /\ InitTossVars

InitDrain ==
    /\ example \in QueueExamples
    /\ InitLoop
    /\ InitQueueVars
    /\ InitRetryVars
    /\ InitTossVars

\* the toss file an earlier run of the agent has left: toss 1 with its options,
\* joined by its creator with "yes" and by a second user with "NO"
StoredToss ==
    LET toss == [newToss(1, InboxIds[1], A_5) EXCEPT !.tossOptions = ParsedOptions]
        first == addPlayerToGame(toss, InboxIds[1], O_yes, TRUE).toss
    IN  addPlayerToGame(first, InboxIds[2], O_NO, TRUE).toss

\* the agent is started over the toss files of an earlier run
InitStored ==
    /\ example = "cointoss"
    /\ InitLoop
    /\ InitQueueVars
    /\ InitRetryVars
    /\ closing = NoClose
    /\ paid = {}
    /\ payout = NoPrize
    /\ cmd = NoCommand
    /\ created = NoToss
    /\ store = [i \in TossIds |-> IF i = 1 THEN stringify(StoredToss) ELSE NoToss]

InitRestart ==
    /\ example \in RestartExamples
    /\ InitLoop
    /\ InitQueueVars
    /\ InitRetryVars
    /\ InitTossVars

InitToss ==
    /\ example = "cointoss"
    /\ InitLoop
    /\ InitQueueVars
    /\ InitRetryVars
    /\ InitTossVars

NextStream ==
    \/ HelperMessage
    \/ SkillsOnMessage
    \/ SkillsHandleMessageAsync
    \/ TossListenerMessage
    \/ LangchainMessage
    \/ GmMessage
    \/ GmExitMessage
    \/ GmDmMessage
    \/ GptMessage
    \/ GaiaMessage
    \/ NftMessage
    \/ StreamFail

NextQueue ==
    \/ ReceiverMessage
    \/ ProcessMissedMessages
    \/ ProcessMessageQueue
    \/ SendComplete
    \/ Tick
    \/ StreamFail

\* the loop body of the receiver for the messages it queues a reply for: the
\* text messages of peers
PeerTextMessage == ReceiverMessage /\ invoked'

NextPriority ==
    \/ PeerTextMessage
    \/ ProcessMissedMessages
    \/ ProcessMessageQueue
    \/ SendComplete
    \/ Tick

NextDrain ==
    \/ PeerTextMessage
    \/ ProcessMissedMessages
    \/ ProcessMessageQueue
    \/ SendComplete
    \/ Tick

NextRetry ==
    \/ OnFail
    \/ TimePasses
    \/ HandleStream
    \/ RetryHelperMessage

NextAgents ==
    \/ HelperMessage
    \/ SkillsOnMessage
    \/ SkillsHandleMessageAsync
    \/ TossListenerMessage
    \/ LangchainMessage
    \/ GmMessage
    \/ GmExitMessage
    \/ GmDmMessage
    \/ GptMessage
    \/ GaiaMessage
    \/ NftMessage
    \/ ReceiverMessage
    \/ ProcessMissedMessages
    \/ ProcessMessageQueue
    \/ SendComplete
    \/ Tick

NextRestart ==
    \/ ReceiverMessage
    \/ StreamFail
    \/ TimePasses
    \/ ReceiverRestart
    \/ GmLoopMessage
    \/ GmLoopFail

NextToss ==
    \/ CreateCommand
    \/ JoinCommand
    \/ HelpCommand
    \/ CloseStart
    \/ CloseFinish
    \/ CancelGame

\* the commands that join and close tosses
NextStored ==
    \/ JoinCommand
    \/ CloseStart
    \/ CloseFinish

NextStartup ==
    \/ ValidateEnvironment
    \/ TopLevel
    \/ Start

NextRevoke ==
    \/ InboxState
    \/ RevokeInstallations
    \/ ClientCreate

NextSecret == SecretMessage

NextKeys == GenerateKeys

SpecStream == InitStream /\ [][NextStream]_vars

SpecRetry == InitRetry /\ [][NextRetry]_vars

\* the message handling of all the agents while their streams are up
SpecAgents == InitAgents /\ [][NextAgents]_vars

\* the queue examples up to a failure of the receiver's stream
SpecQueue == InitQueue /\ [][NextQueue]_vars

\* the receivers that subscribe again after a failure, and the gm loop
SpecRestart == InitRestart /\ [][NextRestart]_vars

SpecToss == InitToss /\ [][NextToss]_vars

\* the queue of the priority-queue examples while the stream of the receiver
\* is up and delivers text messages of peers
SpecPriority == InitPriority /\ [][NextPriority]_vars

\* the start-up of an example from its environment
SpecStartup == InitStartup /\ [][NextStartup]_vars

\* a run of the revoke-installations script
SpecRevoke == InitRevoke /\ [][NextRevoke]_vars

\* a run of a gen:keys script
SpecKeys == InitKeys /\ [][NextKeys]_vars

\* the queue examples while the setInterval of processMessageQueue keeps
\* firing, every run of it finishes, and no message fails for ever
SpecDrain ==
    /\ InitDrain
    /\ [][NextDrain]_vars
    /\ WF_vars(ProcessMessageQueue)
    /\ WF_vars(SendComplete)
    /\ SF_vars(SendSettles)

\* the coin-toss agent started over a stored toss that waits to be closed
SpecStored == InitStored /\ [][NextStored]_vars

\* the secret-word agent while its stream is up
SpecSecret == InitSecret /\ [][NextSecret]_vars

====
